---------------------------- MODULE Spec2Model ----------------------------
(***************************************************************************)
(* Model of the sky service of pythonbackend (star_service.py, main.py,    *)
(* iau.py, constellations.py).                                             *)
(*                                                                         *)
(* A worker takes one request (phase "idle"), runs the whole handler in a  *)
(* single step (phase "responded", with the request in req and the result  *)
(* in resp) and the reply is then delivered (back to "idle").              *)
(*                                                                         *)
(* Conventions                                                             *)
(*  - Optional[T]: None is <<>>, a given value v is <<v>>.                 *)
(*  - a star name is represented by its rank in lexicographic order.       *)
(*  - angles and magnitudes are taken from small integer grids; the        *)
(*    floating point trigonometry that yields a horizontal position is an  *)
(*    input of the handlers (horiz), not computed here.                    *)
(*  - the result of a Python call is [kind |-> "ok", val |-> v] or         *)
(*    [kind |-> "ValueError"] / [kind |-> "Exception"] when it raises.     *)
(***************************************************************************)
EXTENDS Integers, Sequences, FiniteSets, TLC

VARIABLES
    phase,      \* "idle" | "responded": position of the request worker
    op,         \* name of the operation that produced resp
    req,        \* arguments of that operation
    resp,       \* its result
    catalog,    \* the list load_star_catalog() returns, in file order
    cache,      \* per cached loader: None, or the object lru_cache holds
    threads,    \* per worker thread: its call stack into the cached loaders
                \* and the object its request obtained
    loads,      \* per cached loader: how often its body has been executed
    frameCache  \* the cache of constellation frame lists, least recently used
                \* entry first

vars == <<phase, op, req, resp, catalog, cache, threads, loads, frameCache>>

\* what a request handler leaves alone
static == <<catalog, cache, threads, loads, frameCache>>
\* what a first use of a cached loader leaves alone
requestState == <<phase, op, req, resp, catalog, frameCache>>

-----------------------------------------------------------------------------
(* Bounds and value grids *)

MaxStars == 2           \* stars in the catalog
TicksPerSecond == 2     \* resolution of an instant below the second
MaxSamples == 2         \* rise/set samples the provider reports for a planet

StarNames  == 1..MaxStars
Magnitudes == {1, 2}
Altitudes  == {0, 1}
Azimuths   == {0, 1}

None == <<>>
Some(v) == <<v>>
IsNone(o) == o = <<>>
Val(o) == o[1]

Range(s) == {s[i] : i \in DOMAIN s}

NoRequest == [none |-> TRUE]

\* no request in progress
Idle ==
    /\ phase = "idle"
    /\ op = "none"
    /\ req = NoRequest
    /\ resp = NoRequest

-----------------------------------------------------------------------------
(* Python list helpers *)

\* s[:n] for n >= 0
Take(s, n) == IF n >= Len(s) THEN s ELSE SubSeq(s, 1, n)

\* [x for x in s if Keep(x)]
RECURSIVE SelectWhere(_, _)
SelectWhere(s, keepIdx) ==
    IF s = <<>> THEN <<>>
    ELSE LET n == Len(s)
             front == SelectWhere(SubSeq(s, 1, n - 1), keepIdx)
         IN  IF n \in keepIdx THEN Append(front, s[n]) ELSE front

\* insert x into the sorted sequence s behind every element e with Before(e)
InsertAfter(s, x, beforeIdx) ==
    LET k == Cardinality(beforeIdx)
    IN  SubSeq(s, 1, k) \o <<x>> \o SubSeq(s, k + 1, Len(s))

\* list.sort(key=magnitude): stable, ascending
RECURSIVE SortByMagnitude(_)
SortByMagnitude(s) ==
    IF s = <<>> THEN <<>>
    ELSE LET n == Len(s)
             front == SortByMagnitude(SubSeq(s, 1, n - 1))
             x == s[n]
         IN  InsertAfter(front, x,
                 {i \in DOMAIN front : front[i].magnitude <= x.magnitude})

\* list.sort(key=altitude_deg, reverse=True): stable, descending
RECURSIVE SortByAltitudeDesc(_)
SortByAltitudeDesc(s) ==
    IF s = <<>> THEN <<>>
    ELSE LET n == Len(s)
             front == SortByAltitudeDesc(SubSeq(s, 1, n - 1))
             x == s[n]
         IN  InsertAfter(front, x,
                 {i \in DOMAIN front : front[i].altitude_deg >= x.altitude_deg})

-----------------------------------------------------------------------------
(* Time: instants are counted in ticks, TicksPerSecond of them to a second  *)
(* (the code's datetime counts microseconds).  A time argument is           *)
(*   [form |-> "none"]           the parameter was not given (None)         *)
(*   [form |-> "empty"]          the empty string                           *)
(*   [form |-> "bad"]            a string datetime.fromisoformat rejects    *)
(*   [form |-> "iso", t |-> n]   an ISO-8601 string naming the UTC instant n *)

Ok(v) == [kind |-> "ok", val |-> v]
ValueError == [kind |-> "ValueError"]
ProviderError == [kind |-> "Exception"]
IsOk(r) == r.kind = "ok"

\* results of the window operations also count the work done before the
\* call ended: frames computed, or provider searches started
Done(v, n) == [kind |-> "ok", val |-> v, work |-> n]
Raised(kind, n) == [kind |-> kind, work |-> n]
\* the call never returns
Diverges == [kind |-> "diverges"]

Iso(t) == [form |-> "iso", t |-> t]
NoTime == [form |-> "none"]
EmptyTime == [form |-> "empty"]
BadTime == [form |-> "bad"]

\* a string spelled out: a date part (well formed or not), the character
\* between date and time, the wall-clock time in ticks, what follows the
\* time ("" for nothing, "Z", "z", "ZZ", or "offset" with the offset in
\* ticks), and whether blanks surround it all
TimeText(pad, date, sep, wall, suffix, offset) ==
    [form |-> "text", pad |-> pad, date |-> date, sep |-> sep, wall |-> wall,
     suffix |-> suffix, offset |-> offset]
BlankTime == [form |-> "blank"]

\* s.strip(), then a final "Z" replaced by "+00:00"
StripAndReplaceZ(s) ==
    [s EXCEPT !.pad = FALSE,
              !.suffix = CASE s.suffix = "Z" -> "offset"
                           [] s.suffix = "ZZ" -> "Z+00:00"
                           [] OTHER -> s.suffix,
              !.offset = IF s.suffix = "Z" THEN 0 ELSE s.offset]

\* datetime.fromisoformat: any single character may stand between date and
\* time; the time may end with a numeric offset and nothing else; the result
\* is the wall-clock time and the offset, None for a naive datetime
FromIsoformat(s) ==
    IF s.pad \/ s.date # "iso" \/ s.suffix \notin {"", "offset"} THEN ValueError
    ELSE Ok([wall |-> s.wall,
             tzinfo |-> IF s.suffix = "" THEN None ELSE Some(s.offset)])

\* lines 146-149: replace(tzinfo=utc) of a naive datetime, astimezone(utc)
\* of an aware one; the result is the UTC instant in ticks
ToUtc(dt) == IF IsNone(dt.tzinfo) THEN dt.wall ELSE dt.wall - Val(dt.tzinfo)

\* _parse_iso_datetime_utc: `not when_iso_utc` covers None and ""
ParseIsoDatetimeUtc(when_iso_utc, now) ==
    CASE when_iso_utc.form \in {"none", "empty"} -> Ok(now)
      [] when_iso_utc.form \in {"bad", "blank"} -> ValueError
      [] when_iso_utc.form = "text" ->
            LET dt == FromIsoformat(StripAndReplaceZ(when_iso_utc))
            IN  IF IsOk(dt) THEN Ok(ToUtc(dt.val)) ELSE ValueError
      [] OTHER -> Ok(when_iso_utc.t)

\* _format_time_iso_z of a datetime: strftime("%Y-%m-%dT%H:%M:%SZ") drops the
\* fraction of the second.  The string is represented by the second it names.
FormatDatetimeIsoZ(t) == t \div TicksPerSecond

\* _format_time_iso_z of a skyfield Time: utc_strftime with %S rounds to the
\* nearest second
FormatTimeIsoZ(t) == (2 * t + TicksPerSecond) \div (2 * TicksPerSecond)

\* the ISO string a formatted second reads back as
IsoOfSecond(sec) == Iso(sec * TicksPerSecond)

-----------------------------------------------------------------------------
(* star_service.get_visible_stars *)

\* the candidate list built by the loop over load_star_catalog()
StarItem(star, h) ==
    [name |-> star.name, magnitude |-> star.magnitude,
     altitude_deg |-> h.altitude_deg, azimuth_deg |-> h.azimuth_deg]

AltitudeFilter(cat, horiz, minimum_altitude_deg) ==
    LET items == [i \in DOMAIN cat |-> StarItem(cat[i], horiz[i])]
    IN  SelectWhere(items,
            {i \in DOMAIN items : items[i].altitude_deg >= minimum_altitude_deg})

MagnitudeFilter(results, max_magnitude) ==
    IF IsNone(max_magnitude) THEN results
    ELSE SelectWhere(results,
            {i \in DOMAIN results : results[i].magnitude <= Val(max_magnitude)})

SortResults(results, sort_by_magnitude) ==
    IF sort_by_magnitude THEN SortByMagnitude(results)
    ELSE SortByAltitudeDesc(results)

ApplyLimit(results, limit) ==
    IF ~IsNone(limit) /\ Val(limit) > 0 THEN Take(results, Val(limit))
    ELSE results

\* mutant: the limit cut before the sort
VisibleStarsLimitFirst(cat, horiz, min_alt, limit, by_mag, max_mag) ==
    SortResults(
        ApplyLimit(MagnitudeFilter(AltitudeFilter(cat, horiz, min_alt), max_mag),
                   limit),
        by_mag)

\* lines 556-601: altitude filter, magnitude filter, sort, limit
VisibleStarsList(cat, horiz, min_alt, limit, by_mag, max_mag) ==
    ApplyLimit(
        SortResults(MagnitudeFilter(AltitudeFilter(cat, horiz, min_alt), max_mag),
                    by_mag),
        limit)

\* get_visible_stars; horiz[i] is what _equatorial_to_horizontal gives for
\* catalog star i at the parsed instant and the observer of the call
GetVisibleStars(cat, when, now, horiz, min_alt, limit, by_mag, max_mag) ==
    IF ~IsOk(ParseIsoDatetimeUtc(when, now)) THEN ValueError
    ELSE Ok(VisibleStarsList(cat, horiz, min_alt, limit, by_mag, max_mag))

-----------------------------------------------------------------------------
(* star_service.get_visible_bodies                                          *)
(* The ephemeris provider is an input: sky[i] is the apparent altaz() of    *)
(* body i, and fault names the one provider call of the request that        *)
(* raises, if any: the observation of body i ("observe") or the phase       *)
(* computation for body i ("phase").  Magnitude, phase and distance fields  *)
(* of an item are left out.                                                 *)

Bodies == <<
    [name |-> "Sun", type |-> "sun"],
    [name |-> "Moon", type |-> "moon"],
    [name |-> "Mercury", type |-> "planet"],
    [name |-> "Venus", type |-> "planet"],
    [name |-> "Mars", type |-> "planet"],
    [name |-> "Jupiter", type |-> "planet"],
    [name |-> "Saturn", type |-> "planet"],
    [name |-> "Uranus", type |-> "planet"],
    [name |-> "Neptune", type |-> "planet"] >>

BodyItem(i, h) ==
    [name |-> Bodies[i].name, type |-> Bodies[i].type,
     altitude_deg |-> h.altitude_deg, azimuth_deg |-> h.azimuth_deg]

\* mutant: a body exactly at the threshold is dropped
BodyVisibleStrict(h, minimum_altitude_deg) ==
    h.altitude_deg > minimum_altitude_deg

\* lines 266, 281, 305: kept unless altitude < minimum_altitude_deg
BodyVisible(h, minimum_altitude_deg) ==
    h.altitude_deg >= minimum_altitude_deg

\* whether the provider fault of the request reaches the caller: an
\* observation is made for every body; the Moon's phase is computed only when
\* the Moon is kept and is not guarded; a planet's phase is computed only when
\* the planet is kept and is guarded by try/except (phase = 0.0)
BodiesFaultRaises(sky, minimum_altitude_deg, fault) ==
    /\ ~IsNone(fault)
    /\ \/ Val(fault).at = "observe"
       \/ /\ Val(fault).at = "phase"
          /\ Bodies[Val(fault).body].type = "moon"
          /\ BodyVisible(sky[Val(fault).body], minimum_altitude_deg)

\* lines 251-332 when no call raises
VisibleBodiesList(sky, minimum_altitude_deg) ==
    LET items == [i \in DOMAIN Bodies |-> BodyItem(i, sky[i])]
    IN  SortByAltitudeDesc(SelectWhere(items,
            {i \in DOMAIN items : BodyVisible(sky[i], minimum_altitude_deg)}))

GetVisibleBodies(when, now, sky, minimum_altitude_deg, fault) ==
    IF ~IsOk(ParseIsoDatetimeUtc(when, now)) THEN ValueError
    ELSE IF BodiesFaultRaises(sky, minimum_altitude_deg, fault) THEN ProviderError
    ELSE Ok(VisibleBodiesList(sky, minimum_altitude_deg))

-----------------------------------------------------------------------------
(* star_service.get_astronomy_events                                        *)
(* The provider is an input.  moon = [events, failAt]: the moon phase       *)
(* changes find_discrete reports, in time order; planets[i] = [state0,      *)
(* samples, failAt]: f_rs(t0) and the (time, up) samples find_discrete      *)
(* reports for planet i.  failAt = Some(0): a provider call before the loop *)
(* raises; failAt = Some(j), j >= 1: the provider call made for entry j     *)
(* raises (fraction_illuminated for a moon phase, altaz() for a rise/set).  *)
(* An event keeps, beside the dict's type and time, the body it is about    *)
(* (part of the description) and, as `instant`, the provider time ti the    *)
(* time string was formatted from.                                          *)

EventPlanets ==
    <<"Mercury", "Venus", "Mars", "Jupiter", "Saturn", "Uranus", "Neptune">>

Event(type, body, ti) ==
    [type |-> type, time |-> FormatTimeIsoZ(ti), body |-> body, instant |-> ti]

\* list.sort(key=time): stable, ascending
RECURSIVE SortByTime(_)
SortByTime(s) ==
    IF s = <<>> THEN <<>>
    ELSE LET n == Len(s)
             front == SortByTime(SubSeq(s, 1, n - 1))
             x == s[n]
         IN  InsertAfter(front, x, {i \in DOMAIN front : front[i].time <= x.time})

\* lines 384-407: the events appended before the try block is left
RECURSIVE MoonWalk(_, _)
MoonWalk(moon, j) ==
    IF j > Len(moon.events) \/ moon.failAt = Some(j) THEN <<>>
    ELSE <<Event("moon_phase", "Moon", moon.events[j].t)>> \o MoonWalk(moon, j + 1)

MoonEvents(moon) == IF moon.failAt = Some(0) THEN <<>> ELSE MoonWalk(moon, 1)

\* a walk that emits an event for every sample, by the state it reports
RECURSIVE PlanetWalkEverySample(_, _, _, _)
PlanetWalkEverySample(name, d, j, prev) ==
    IF j > Len(d.samples) THEN <<>>
    ELSE IF d.failAt = Some(j) THEN <<>>
    ELSE <<Event(IF d.samples[j].st THEN "planet_rise" ELSE "planet_set",
                 name, d.samples[j].t)>>
            \o PlanetWalkEverySample(name, d, j + 1, d.samples[j].st)

\* a walk that compares every sample with the state at t0
RECURSIVE PlanetWalkFromInitialState(_, _, _, _)
PlanetWalkFromInitialState(name, d, j, prev) ==
    IF j > Len(d.samples) THEN <<>>
    ELSE IF prev = d.samples[j].st
    THEN PlanetWalkFromInitialState(name, d, j + 1, prev)
    ELSE IF d.failAt = Some(j) THEN <<>>
    ELSE <<Event(IF d.samples[j].st THEN "planet_rise" ELSE "planet_set",
                 name, d.samples[j].t)>>
            \o PlanetWalkFromInitialState(name, d, j + 1, prev)

\* lines 427-452: the loop over zip(times, updown), prev being the state
\* before sample j
RECURSIVE PlanetWalk(_, _, _, _)
PlanetWalk(name, d, j, prev) ==
    IF j > Len(d.samples) THEN <<>>
    ELSE LET st_bool == d.samples[j].st
             ti == d.samples[j].t
         IN  IF prev = st_bool
             THEN PlanetWalk(name, d, j + 1, st_bool)
             ELSE IF d.failAt = Some(j)
             THEN <<>>
             ELSE <<Event(IF st_bool THEN "planet_rise" ELSE "planet_set", name, ti)>>
                    \o PlanetWalk(name, d, j + 1, st_bool)

\* mutant: a failure discards what the planet had contributed
PlanetEventsAllOrNothing(name, d) ==
    IF d.failAt = Some(0) THEN <<>>
    ELSE IF \E j \in DOMAIN d.samples :
                /\ d.failAt = Some(j)
                /\ d.samples[j].st # (IF j = 1 THEN d.state0 ELSE d.samples[j - 1].st)
         THEN <<>>
         ELSE PlanetWalk(name, d, 1, d.state0)

\* lines 420-454: one iteration of the loop over planets
PlanetEvents(name, d) ==
    IF d.failAt = Some(0) THEN <<>> ELSE PlanetWalk(name, d, 1, d.state0)

RECURSIVE AllPlanetEvents(_, _)
AllPlanetEvents(planets, i) ==
    IF i > Len(EventPlanets) THEN <<>>
    ELSE PlanetEvents(EventPlanets[i], planets[i]) \o AllPlanetEvents(planets, i + 1)

\* lines 381-458
EventList(moon, planets) ==
    SortByTime(MoonEvents(moon) \o AllPlanetEvents(planets, 1))

\* get_astronomy_events; the work counted is the find_discrete searches: one
\* for the moon phases and one per planet
GetAstronomyEvents(start_iso_utc, end_iso_utc, now, moon, planets) ==
    LET t_start == ParseIsoDatetimeUtc(start_iso_utc, now)
        t_end == ParseIsoDatetimeUtc(end_iso_utc, now)
    IN  IF ~IsOk(t_start) \/ ~IsOk(t_end) THEN Raised("ValueError", 0)
        ELSE IF t_end.val <= t_start.val THEN Raised("ValueError", 0)
        ELSE Done(EventList(moon, planets), 1 + Len(EventPlanets))

-----------------------------------------------------------------------------
(* Batch helpers: _iterate_datetimes_utc, get_visible_stars_batch,          *)
(* get_visible_bodies_batch.  step_hours is given in quarters of a tick.    *)

MinusNinety == -90

\* timedelta(hours=step_hours): rounded to a whole number of ticks, a half
\* to the even neighbour
StepToTimedelta(step_hours) ==
    LET f == step_hours \div 4
        r == step_hours % 4
    IN  IF r < 2 THEN f
        ELSE IF r > 2 THEN f + 1
        ELSE IF f % 2 = 0 THEN f ELSE f + 1

\* the instants cur = start_dt, start_dt + step, ... with cur <= end_dt
RECURSIVE InstantsFrom(_, _, _)
InstantsFrom(cur, end_dt, step) ==
    IF cur <= end_dt THEN <<cur>> \o InstantsFrom(cur + step, end_dt, step)
    ELSE <<>>

\* _iterate_datetimes_utc: raises for step_hours <= 0; with a step that
\* rounds to no tick at all cur never passes end_dt
IterateDatetimesUtc(start_dt, end_dt, step_hours) ==
    IF step_hours <= 0 THEN ValueError
    ELSE IF StepToTimedelta(step_hours) = 0 /\ start_dt <= end_dt THEN Diverges
    ELSE Ok(InstantsFrom(start_dt, end_dt, StepToTimedelta(step_hours)))

\* lines 490-500: one frame; the stars are computed for the instant the
\* label iso names
StarFrame(cat, dt, horizAt, max_magnitude, limit) ==
    LET iso == FormatDatetimeIsoZ(dt)
    IN  [at |-> iso,
         items |-> VisibleStarsList(cat, horizAt[iso], MinusNinety, limit,
                                    TRUE, max_magnitude)]

\* mutant: an empty window is not returned early
StarsBatchNoWindowCheck(cat, start, end_, now, step_hours, horizAt, max_mag, limit) ==
    LET start_dt == ParseIsoDatetimeUtc(start, now)
        end_dt == ParseIsoDatetimeUtc(end_, now)
    IN  IF ~IsOk(start_dt) \/ ~IsOk(end_dt) THEN Raised("ValueError", 0)
        ELSE LET it == IterateDatetimesUtc(start_dt.val, end_dt.val, step_hours)
             IN  IF it.kind = "ValueError" THEN Raised("ValueError", 0)
                 ELSE IF it.kind = "diverges" THEN Diverges
                 ELSE Done([i \in DOMAIN it.val |->
                                StarFrame(cat, it.val[i], horizAt, max_mag, limit)],
                           Len(it.val))

\* get_visible_stars_batch
GetVisibleStarsBatch(cat, start, end_, now, step_hours, horizAt, max_mag, limit) ==
    LET start_dt == ParseIsoDatetimeUtc(start, now)
        end_dt == ParseIsoDatetimeUtc(end_, now)
    IN  IF ~IsOk(start_dt) \/ ~IsOk(end_dt) THEN Raised("ValueError", 0)
        ELSE IF end_dt.val <= start_dt.val THEN Done(<<>>, 0)
        ELSE LET it == IterateDatetimesUtc(start_dt.val, end_dt.val, step_hours)
             IN  IF it.kind = "ValueError" THEN Raised("ValueError", 0)
                 ELSE IF it.kind = "diverges" THEN Diverges
                 ELSE Done([i \in DOMAIN it.val |->
                                StarFrame(cat, it.val[i], horizAt, max_mag, limit)],
                           Len(it.val))

\* the provider fault of a bodies batch names the second of the frame it hits
FrameFault(fault, iso) ==
    IF ~IsNone(fault) /\ Val(fault).second = iso
    THEN Some([body |-> Val(fault).body, at |-> Val(fault).at])
    ELSE None

\* lines 520-529: get_visible_bodies for the instant iso names, then [:limit]
BodyFrameResult(dt, skyAt, fault) ==
    LET iso == FormatDatetimeIsoZ(dt)
    IN  GetVisibleBodies(IsoOfSecond(iso), 0, skyAt[iso], MinusNinety,
                         FrameFault(fault, iso))

BodyFrame(dt, skyAt, fault, limit) ==
    [at |-> FormatDatetimeIsoZ(dt),
     items |-> ApplyLimit(BodyFrameResult(dt, skyAt, fault).val, limit)]

\* the frames get_visible_bodies_batch appends for the instants dts, up to the
\* first frame whose computation raises
FailingFrames(dts, skyAt, fault) ==
    {i \in DOMAIN dts : ~IsOk(BodyFrameResult(dts[i], skyAt, fault))}

FirstOf(S) == CHOOSE i \in S : \A j \in S : i <= j

\* get_visible_bodies_batch
GetVisibleBodiesBatch(start, end_, now, step_hours, skyAt, fault, limit) ==
    LET start_dt == ParseIsoDatetimeUtc(start, now)
        end_dt == ParseIsoDatetimeUtc(end_, now)
    IN  IF ~IsOk(start_dt) \/ ~IsOk(end_dt) THEN Raised("ValueError", 0)
        ELSE IF end_dt.val <= start_dt.val THEN Done(<<>>, 0)
        ELSE LET it == IterateDatetimesUtc(start_dt.val, end_dt.val, step_hours)
             IN  IF it.kind = "ValueError" THEN Raised("ValueError", 0)
                 ELSE IF it.kind = "diverges" THEN Diverges
                 ELSE IF FailingFrames(it.val, skyAt, fault) # {}
                 THEN Raised("Exception", FirstOf(FailingFrames(it.val, skyAt, fault)))
                 ELSE Done([i \in DOMAIN it.val |->
                                BodyFrame(it.val[i], skyAt, fault, limit)],
                           Len(it.val))

-----------------------------------------------------------------------------
(* main.py: the HTTP endpoints.  A response is [status, body]; status 0     *)
(* stands for a request that is never answered.                             *)

Hint == "Use ISO 8601 UTC con sufijo Z, ej. 2025-01-10T03:00:00Z"

Http200(body) == [status |-> 200, body |-> body]
\* value_error_handler
Http400 == [status |-> 400, body |-> [detail |-> "ValueError", hint |-> Hint]]
\* an exception no handler is registered for
Http500 == [status |-> 500, body |-> [detail |-> "Internal Server Error"]]
NoResponse == [status |-> 0, body |-> <<>>]

\* an endpoint without try/except: visible_stars, sky
Surface(result) ==
    CASE result.kind = "ok" -> Http200(result.val)
      [] result.kind = "ValueError" -> Http400
      [] result.kind = "diverges" -> NoResponse
      [] OTHER -> Http500

\* an endpoint whose body is try: ... except Exception: return <empty>:
\* visible_bodies, astronomy_events
Swallow(result) ==
    CASE result.kind = "ok" -> Http200(result.val)
      [] result.kind = "diverges" -> NoResponse
      [] OTHER -> Http200(<<>>)

\* visible_stars_batch, visible_bodies_batch: {"frames": frames}, or
\* {"frames": []} on any exception
SwallowFrames(result) ==
    CASE result.kind = "ok" -> Http200([frames |-> result.val])
      [] result.kind = "diverges" -> NoResponse
      [] OTHER -> Http200([frames |-> <<>>])

\* compute_visible_stars: every catalog star, in catalog order
ComputeVisibleStars(cat, date_iso, now, horiz) ==
    IF ~IsOk(ParseIsoDatetimeUtc(date_iso, now)) THEN ValueError
    ELSE Ok([i \in DOMAIN cat |-> StarItem(cat[i], horiz[i])])

\* constellation_by_direction, lines 141-148: only None means now; any other
\* string goes to datetime.fromisoformat
ParseAtDirect(at, now) ==
    CASE at.form = "none" -> Ok(now)
      [] at.form = "iso" -> Ok(at.t)
      [] OTHER -> ValueError

-----------------------------------------------------------------------------
(* The process-wide resources: load_star_catalog, load_iau_boundaries,      *)
(* get_iau_constellation_centroids and _load_ephemeris are each wrapped in  *)
(* functools.lru_cache(maxsize=1) and called without arguments.  A call     *)
(* looks the cache up; on a miss it runs the loader body with no lock held  *)
(* (the body reads a file, other threads run meanwhile), and afterwards     *)
(* stores the result unless the cache was filled in the meantime; either    *)
(* way it returns the object it built itself.  The body of                  *)
(* get_iau_constellation_centroids calls load_iau_boundaries.               *)
(* An object is named by the number of the body execution that built it.    *)

NumWorkers == 2

Workers == 1..NumWorkers
Resources == {"catalog", "boundaries", "centroids", "ephemeris"}

Frame(r, pc, obj) == [res |-> r, pc |-> pc, obj |-> obj]

LoadersAtStart ==
    /\ cache = [r \in Resources |-> None]
    /\ loads = [r \in Resources |-> 0]
    /\ threads = [w \in Workers |-> [stack |-> <<>>, used |-> None, got |-> None]]
    /\ frameCache = <<>>

Top(w) == threads[w].stack[Len(threads[w].stack)]
Busy(w) == threads[w].stack # <<>>

ReplaceTop(w, f) ==
    [threads EXCEPT ![w].stack[Len(threads[w].stack)] = f]

\* the call on top of w's stack returns obj: to the loader body that made it,
\* or to the request
Return(w, obj) ==
    LET st == threads[w].stack
        rest == SubSeq(st, 1, Len(st) - 1)
    IN  IF rest = <<>>
        THEN [threads EXCEPT ![w] = [stack |-> <<>>, used |-> Some(Top(w).res),
                                     got |-> Some(obj)]]
        ELSE [threads EXCEPT ![w].stack =
                [rest EXCEPT ![Len(rest)].pc = "build"]]

\* a request of worker w uses resource r for the first time
FirstUse(w, r) ==
    /\ ~Busy(w)
    /\ IsNone(threads[w].used)
    /\ threads' = [threads EXCEPT ![w].stack = <<Frame(r, "lookup", 0)>>]
    /\ UNCHANGED <<cache, loads>>
    /\ UNCHANGED requestState

\* the cache lookup of lru_cache's wrapper; no lock is held while a loader
\* body runs, so a lookup never waits for a load in progress
Lookup(w) ==
    /\ Busy(w)
    /\ Top(w).pc = "lookup"
    /\ IF IsNone(cache[Top(w).res])
       THEN threads' = ReplaceTop(w, Frame(Top(w).res, "body", 0))
       ELSE threads' = Return(w, Val(cache[Top(w).res]))
    /\ UNCHANGED <<cache, loads>>
    /\ UNCHANGED requestState

\* the loader body starts; the one of get_iau_constellation_centroids first
\* calls load_iau_boundaries
EnterBody(w) ==
    /\ Busy(w)
    /\ Top(w).pc = "body"
    /\ IF Top(w).res = "centroids"
       THEN threads' = [threads EXCEPT ![w].stack =
                            Append(@, Frame("boundaries", "lookup", 0))]
       ELSE threads' = ReplaceTop(w, Frame(Top(w).res, "build", 0))
    /\ UNCHANGED <<cache, loads>>
    /\ UNCHANGED requestState

\* the loader body builds its object
Build(w) ==
    /\ Busy(w)
    /\ Top(w).pc = "build"
    /\ loads' = [loads EXCEPT ![Top(w).res] = @ + 1]
    /\ threads' = ReplaceTop(w, Frame(Top(w).res, "store", loads[Top(w).res] + 1))
    /\ UNCHANGED cache
    /\ UNCHANGED requestState

\* lru_cache's wrapper after the call: store unless the key is there already
Store(w) ==
    /\ Busy(w)
    /\ Top(w).pc = "store"
    /\ cache' = IF IsNone(cache[Top(w).res])
                THEN [cache EXCEPT ![Top(w).res] = Some(Top(w).obj)]
                ELSE cache
    /\ threads' = Return(w, Top(w).obj)
    /\ UNCHANGED loads
    /\ UNCHANGED requestState

InitLoad ==
    /\ Idle
    /\ LoadersAtStart
    /\ catalog = <<>>

NextLoad ==
    \E w \in Workers :
        \/ \E r \in Resources : FirstUse(w, r)
        \/ Lookup(w)
        \/ EnterBody(w)
        \/ Build(w)
        \/ Store(w)

SpecLoad == InitLoad /\ [][NextLoad]_vars

-----------------------------------------------------------------------------
(* Inputs *)

\* azimuths of the nine bodies: alternating either way
AzimuthTracks ==
    { [i \in DOMAIN Bodies |-> i % 2],
      [i \in DOMAIN Bodies |-> (i + 1) % 2] }

SkiesOver(alts) ==
    { [i \in DOMAIN Bodies |-> [altitude_deg |-> alt[i], azimuth_deg |-> az[i]]] :
        alt \in [DOMAIN Bodies -> alts], az \in AzimuthTracks }

\* skies of the requests in which no provider call fails
BodyAltitudes == {0, 1, 2}
Skies == SkiesOver(BodyAltitudes)

\* skies of the requests in which one provider call fails
FaultSkies == SkiesOver(Altitudes)

BodyFaults ==
    {Some([body |-> i, at |-> "observe"]) : i \in DOMAIN Bodies}
    \cup {Some([body |-> i, at |-> "phase"]) :
            i \in {j \in DOMAIN Bodies : Bodies[j].type # "sun"}}

Horizontals == [altitude_deg : Altitudes, azimuth_deg : Azimuths]

Limits == {None} \cup {Some(n) : n \in (-1)..MaxStars}
MaxMagnitudes == {None} \cup {Some(m) : m \in Magnitudes}

\* every catalog of at most MaxStars stars with pairwise distinct names
Catalogs ==
    UNION {
        {c \in [1..n -> [name : StarNames, magnitude : Magnitudes]] :
            \A i, j \in 1..n : i # j => c[i].name # c[j].name}
        : n \in 0..MaxStars}

-----------------------------------------------------------------------------
(* Actions: star requests *)

CallGetVisibleStars ==
    /\ phase = "idle"
    /\ \E when_iso_utc \in {NoTime, BadTime, Iso(0)},
          horiz \in [DOMAIN catalog -> Horizontals],
          minimum_altitude_deg \in Altitudes,
          limit \in Limits,
          sort_by_magnitude \in BOOLEAN,
          max_magnitude \in MaxMagnitudes :
        /\ req' = [when_iso_utc |-> when_iso_utc,
                   now |-> 0,
                   horiz |-> horiz,
                   minimum_altitude_deg |-> minimum_altitude_deg,
                   limit |-> limit,
                   sort_by_magnitude |-> sort_by_magnitude,
                   max_magnitude |-> max_magnitude]
        /\ resp' = GetVisibleStars(catalog, when_iso_utc, 0, horiz,
                                   minimum_altitude_deg, limit,
                                   sort_by_magnitude, max_magnitude)
    /\ op' = "get_visible_stars"
    /\ phase' = "responded"
    /\ UNCHANGED static

Deliver ==
    /\ phase = "responded"
    /\ phase' = "idle"
    /\ op' = "none"
    /\ req' = NoRequest
    /\ resp' = NoRequest
    /\ UNCHANGED static

InitStars ==
    /\ Idle
    /\ LoadersAtStart
    /\ catalog \in Catalogs

NextStars == CallGetVisibleStars \/ Deliver

SpecStars == InitStars /\ [][NextStars]_vars

-----------------------------------------------------------------------------
(* Actions: body requests *)

\* the arguments of one call of get_visible_bodies
BodyRequests ==
    [when_iso_utc : {Iso(0)}, now : {0}, sky : Skies,
     minimum_altitude_deg : BodyAltitudes, fault : {None}]
    \cup [when_iso_utc : {Iso(0)}, now : {0}, sky : FaultSkies,
          minimum_altitude_deg : Altitudes, fault : BodyFaults]
    \cup [when_iso_utc : {BadTime}, now : {0}, sky : SkiesOver({0}),
          minimum_altitude_deg : Altitudes, fault : {None}]

CallGetVisibleBodies ==
    /\ phase = "idle"
    /\ \E r \in BodyRequests :
        /\ req' = r
        /\ resp' = GetVisibleBodies(r.when_iso_utc, r.now, r.sky,
                                    r.minimum_altitude_deg, r.fault)
    /\ op' = "get_visible_bodies"
    /\ phase' = "responded"
    /\ UNCHANGED static

InitBodies ==
    /\ Idle
    /\ LoadersAtStart
    /\ catalog = <<>>

NextBodies == CallGetVisibleBodies \/ Deliver

SpecBodies == InitBodies /\ [][NextBodies]_vars

-----------------------------------------------------------------------------
(* Properties of get_visible_stars *)

Min(a, b) == IF a <= b THEN a ELSE b

StarsReturned ==
    /\ phase = "responded"
    /\ op = "get_visible_stars"
    /\ IsOk(resp)

\* catalog positions of the stars that pass both filters of the request
Qualifying ==
    {i \in DOMAIN catalog :
        /\ req.horiz[i].altitude_deg >= req.minimum_altitude_deg
        /\ (IsNone(req.max_magnitude)
                \/ catalog[i].magnitude <= Val(req.max_magnitude))}

ReturnedNames == {resp.val[k].name : k \in DOMAIN resp.val}

\* C1: with sort_by_magnitude and limit > 0 the result is the first `limit`
\* elements of the magnitude-ascending order of the qualifying stars: it holds
\* min(limit, #qualifying) distinct qualifying stars (a star equal to a
\* threshold qualifies), in ascending magnitude, and no omitted qualifying star
\* is strictly brighter than a returned one.
C1_LimitAfterFilterAndSort ==
    (StarsReturned /\ req.sort_by_magnitude
        /\ ~IsNone(req.limit) /\ Val(req.limit) > 0)
    => LET out == resp.val IN
       /\ Len(out) = Min(Val(req.limit), Cardinality(Qualifying))
       /\ \A k \in DOMAIN out :
            \E i \in Qualifying : out[k] = StarItem(catalog[i], req.horiz[i])
       /\ \A k, l \in DOMAIN out : k < l =>
            /\ out[k].name # out[l].name
            /\ out[k].magnitude <= out[l].magnitude
       /\ \A i \in Qualifying : catalog[i].name \notin ReturnedNames =>
            \A k \in DOMAIN out : catalog[i].magnitude >= out[k].magnitude

\* C1 witness: a limit of 1 cuts a result with two qualifying stars, the
\* returned one exactly at the altitude threshold and listed second in the
\* catalog, the omitted one fainter and exactly at the magnitude threshold
C1_Witness ==
    /\ StarsReturned /\ req.sort_by_magnitude
    /\ req.limit = Some(1)
    /\ Cardinality(Qualifying) = 2
    /\ Len(resp.val) = 1
    /\ resp.val[1].altitude_deg = req.minimum_altitude_deg
    /\ \E i \in Qualifying :
        /\ catalog[i].magnitude > resp.val[1].magnitude
        /\ req.max_magnitude = Some(catalog[i].magnitude)
    /\ catalog[1].name # resp.val[1].name

\* C2: in the magnitude-sorted result two stars of equal magnitude are in
\* ascending order of name, whatever the catalog order
C2_TiesByName ==
    (StarsReturned /\ req.sort_by_magnitude)
    => \A k, l \in DOMAIN resp.val :
        (k < l /\ resp.val[k].magnitude = resp.val[l].magnitude)
            => resp.val[k].name < resp.val[l].name

\* C3 (stars): in the altitude-sorted result two entries of equal altitude are
\* in ascending order of azimuth
C3_StarTiesByAzimuth ==
    (StarsReturned /\ ~req.sort_by_magnitude)
    => \A k, l \in DOMAIN resp.val :
        (k < l /\ resp.val[k].altitude_deg = resp.val[l].altitude_deg)
            => resp.val[k].azimuth_deg <= resp.val[l].azimuth_deg


-----------------------------------------------------------------------------
(* Actions: event requests *)

\* instants the provider may report inside the window (0, WindowEnd)
WindowEnd == 2 * TicksPerSecond
EventTicks == 1..3

SampleLists(maxLen) ==
    UNION { {q \in [1..n -> [t : EventTicks, st : BOOLEAN]] :
                \A i \in 1..(n - 1) : q[i].t < q[i + 1].t}
            : n \in 0..maxLen }

FailPoints(n) == {None} \cup {Some(j) : j \in 0..n}

PlanetData(maxLen) ==
    UNION { [state0 : BOOLEAN, samples : {q}, failAt : FailPoints(Len(q))]
            : q \in SampleLists(maxLen) }

QuietPlanet == [state0 |-> FALSE, samples |-> <<>>, failAt |-> None]

MoonData ==
    UNION { [events : {q}, failAt : FailPoints(Len(q))]
            : q \in {<<>>} \cup {<<[t |-> t, phase |-> 2]>> : t \in EventTicks} }

\* the first planet reports up to MaxSamples samples, the second at most one,
\* the others none
PlanetTables ==
    { [i \in DOMAIN EventPlanets |->
            IF i = 1 THEN a ELSE IF i = 2 THEN b ELSE QuietPlanet] :
        a \in PlanetData(MaxSamples), b \in PlanetData(1) }

EventRequests ==
    [start_iso_utc : {Iso(0)}, end_iso_utc : {Iso(WindowEnd)}, now : {0},
     moon : MoonData, planets : PlanetTables]

CallGetAstronomyEvents(requests) ==
    /\ phase = "idle"
    /\ \E r \in requests :
        /\ req' = r
        /\ resp' = GetAstronomyEvents(r.start_iso_utc, r.end_iso_utc, r.now,
                                      r.moon, r.planets)
    /\ op' = "get_astronomy_events"
    /\ phase' = "responded"
    /\ UNCHANGED static

InitEvents ==
    /\ Idle
    /\ LoadersAtStart
    /\ catalog = <<>>

NextEvents == CallGetAstronomyEvents(EventRequests) \/ Deliver

SpecEvents == InitEvents /\ [][NextEvents]_vars

-----------------------------------------------------------------------------
(* Actions: HTTP requests.  req holds the query parameters and the inputs   *)
(* the handler reads from its environment; resp.call is what the service    *)
(* function called by the handler did, resp.http the response.              *)

HttpCatalogs == {c \in Catalogs : Len(c) <= 1}

\* seconds an instant of a request may fall into
HttpTicks == 0..(2 * TicksPerSecond)
HttpSeconds == 0..2

OptionalTimes == {NoTime, EmptyTime, BadTime, Iso(0)}
StartTimes == {BadTime} \cup {Iso(t) : t \in 0..TicksPerSecond}
EndTimes == {BadTime} \cup {Iso(t) : t \in HttpTicks}

\* step_hours in quarters of a tick: negative, zero, too small to advance the
\* clock, one tick, two ticks
StepHours == {-4, 0, 1, 4, 8}
HttpLimits == {None, Some(1)}

\* positions of the catalog stars, second by second
StarTracks ==
    { [sec \in HttpSeconds |->
        [i \in DOMAIN catalog |->
            [altitude_deg |-> (sec + i + k) % 2, azimuth_deg |-> i % 2]]]
      : k \in {0, 1} }

\* positions of the nine bodies, second by second
SkyTracks ==
    { [sec \in HttpSeconds |->
        [i \in DOMAIN Bodies |->
            [altitude_deg |-> (sec + i + k) % 2, azimuth_deg |-> i % 2]]]
      : k \in {0, 1} }

\* the provider call that fails, if any, in a request for one instant
HttpBodyFaults ==
    {None} \cup {Some([body |-> i, at |-> "observe"]) : i \in 1..3}
           \cup {Some([body |-> i, at |-> "phase"]) : i \in 2..3}

\* the provider call that fails, if any, in a batch: it belongs to the frame
\* of one second
HttpFrameFaults ==
    {None} \cup {Some([second |-> sec, body |-> Val(f).body, at |-> Val(f).at]) :
                    sec \in HttpSeconds, f \in HttpBodyFaults \ {None}}

Responded(path, call, http) ==
    /\ op' = path
    /\ resp' = [call |-> call, http |-> http]
    /\ phase' = "responded"
    /\ UNCHANGED static

\* GET /visible-stars
VisibleStars ==
    /\ phase = "idle"
    /\ \E at \in OptionalTimes, limit \in HttpLimits,
          max_mag \in MaxMagnitudes, horiz \in [DOMAIN catalog -> Horizontals] :
        LET call == GetVisibleStars(catalog, at, 0, horiz, MinusNinety, limit,
                                    TRUE, max_mag)
        IN  /\ req' = [at |-> at, now |-> 0, limit |-> limit,
                       max_mag |-> max_mag, horiz |-> horiz]
            /\ Responded("/visible-stars", call, Surface(call))

\* GET /sky
Sky ==
    /\ phase = "idle"
    /\ \E date \in OptionalTimes, horiz \in [DOMAIN catalog -> Horizontals] :
        LET call == ComputeVisibleStars(catalog, date, 0, horiz)
        IN  /\ req' = [date |-> date, now |-> 0, horiz |-> horiz]
            /\ Responded("/sky", call, Surface(call))

\* GET /constellation-by-direction; iau is what find_constellation_by_radec
\* answers for the direction
ConstellationByDirection ==
    /\ phase = "idle"
    /\ \E at \in OptionalTimes, iau \in {None, Some("Ori")} :
        LET call == ParseAtDirect(at, 0)
        IN  /\ req' = [at |-> at, now |-> 0, iau |-> iau]
            /\ Responded("/constellation-by-direction", call,
                    IF IsOk(call)
                    THEN Http200([at |-> IF at.form = "iso"
                                         THEN FormatDatetimeIsoZ(at.t)
                                         ELSE FormatDatetimeIsoZ(0),
                                  iau_constellation |-> iau])
                    ELSE Http400)

\* GET /visible-bodies
VisibleBodies ==
    /\ phase = "idle"
    /\ \E at \in OptionalTimes, track \in SkyTracks, fault \in HttpBodyFaults :
        LET call == GetVisibleBodies(at, 0, track[0], MinusNinety, fault)
        IN  /\ req' = [at |-> at, now |-> 0, sky |-> track[0], fault |-> fault]
            /\ Responded("/visible-bodies", call, Swallow(call))

\* the provider's answers inside the window [0, WindowEnd] of an events
\* request; outside of a valid window the provider is not asked
HttpEventRequests ==
    { r \in [start : StartTimes, end : EndTimes, now : {0},
             moon : {[events |-> <<>>, failAt |-> None]},
             planets : {[i \in DOMAIN EventPlanets |-> QuietPlanet]}] :
        ~(r.start.form = "iso" /\ r.end.form = "iso" /\ r.start.t < r.end.t) }
    \cup [start : {Iso(0)}, end : {Iso(WindowEnd)}, now : {0},
          moon : MoonData,
          planets : {[i \in DOMAIN EventPlanets |->
                        IF i = 1 THEN a ELSE QuietPlanet] : a \in PlanetData(1)}]

\* GET /astronomy-events
AstronomyEvents ==
    /\ phase = "idle"
    /\ \E r \in HttpEventRequests :
        LET call == GetAstronomyEvents(r.start, r.end, r.now, r.moon, r.planets)
        IN  /\ req' = r
            /\ Responded("/astronomy-events", call, Swallow(call))

\* GET /visible-stars-batch
VisibleStarsBatch ==
    /\ phase = "idle"
    /\ \E start \in StartTimes, end \in EndTimes, step_hours \in StepHours,
          limit \in HttpLimits, horizAt \in StarTracks :
        LET call == GetVisibleStarsBatch(catalog, start, end, 0, step_hours,
                                         horizAt, None, limit)
        IN  /\ req' = [start |-> start, end |-> end, now |-> 0,
                       step_hours |-> step_hours, limit |-> limit,
                       max_mag |-> None, horizAt |-> horizAt]
            /\ Responded("/visible-stars-batch", call, SwallowFrames(call))

\* GET /visible-bodies-batch
VisibleBodiesBatch ==
    /\ phase = "idle"
    /\ \E start \in StartTimes, end \in EndTimes, step_hours \in StepHours,
          limit \in HttpLimits, skyAt \in SkyTracks, fault \in HttpFrameFaults :
        LET call == GetVisibleBodiesBatch(start, end, 0, step_hours, skyAt,
                                          fault, limit)
        IN  /\ req' = [start |-> start, end |-> end, now |-> 0,
                       step_hours |-> step_hours, limit |-> limit,
                       skyAt |-> skyAt, fault |-> fault]
            /\ Responded("/visible-bodies-batch", call, SwallowFrames(call))

InitHttp ==
    /\ Idle
    /\ LoadersAtStart
    /\ catalog \in HttpCatalogs

NextHttp ==
    \/ VisibleStars
    \/ Sky
    \/ ConstellationByDirection
    \/ VisibleBodies
    \/ AstronomyEvents
    \/ VisibleStarsBatch
    \/ VisibleBodiesBatch
    \/ Deliver

SpecHttp == InitHttp /\ [][NextHttp]_vars

-----------------------------------------------------------------------------
(* constellations.py, star_service.get_constellation_frame and the          *)
(* constellation endpoints of main.py                                       *)

UrsaMinor ==
    [name |-> "Ursa Minor",
     stars |-> <<"Polaris", "Yildun", "Epsilon UMi", "Zeta UMi", "Pherkad",
                 "Kochab">>,
     edges |-> << <<"Polaris", "Yildun">>, <<"Yildun", "Epsilon UMi">>,
                  <<"Epsilon UMi", "Zeta UMi">>, <<"Zeta UMi", "Pherkad">>,
                  <<"Pherkad", "Kochab">>, <<"Kochab", "Polaris">>,
                  <<"Kochab", "Pherkad">> >>]

UrsaMajor ==
    [name |-> "Ursa Major",
     stars |-> <<"Dubhe", "Merak", "Phecda", "Megrez", "Alioth", "Mizar",
                 "Alkaid">>,
     edges |-> << <<"Dubhe", "Merak">>, <<"Merak", "Phecda">>,
                  <<"Phecda", "Megrez">>, <<"Megrez", "Dubhe">>,
                  <<"Megrez", "Alioth">>, <<"Alioth", "Mizar">>,
                  <<"Mizar", "Alkaid">> >>]

Draco ==
    [name |-> "Draco",
     stars |-> <<"Eltanin", "Rastaban", "Grumium", "Kuma", "Edasich",
                 "Thuban", "Gianfar", "Aldhibah">>,
     edges |-> << <<"Eltanin", "Rastaban">>, <<"Rastaban", "Grumium">>,
                  <<"Grumium", "Kuma">>, <<"Kuma", "Edasich">>,
                  <<"Edasich", "Thuban">>, <<"Thuban", "Gianfar">>,
                  <<"Gianfar", "Aldhibah">> >>]

Cepheus ==
    [name |-> "Cepheus",
     stars |-> <<"Alderamin", "Alfirk", "Delta Cephei", "Zeta Cephei",
                 "Errai">>,
     edges |-> << <<"Alderamin", "Alfirk">>, <<"Alfirk", "Delta Cephei">>,
                  <<"Delta Cephei", "Zeta Cephei">>, <<"Zeta Cephei", "Errai">>,
                  <<"Errai", "Alderamin">> >>]

Cassiopeia ==
    [name |-> "Cassiopeia",
     stars |-> <<"Schedar", "Caph", "Gamma Cassiopeiae", "Ruchbah", "Segin">>,
     edges |-> << <<"Schedar", "Caph">>, <<"Caph", "Gamma Cassiopeiae">>,
                  <<"Gamma Cassiopeiae", "Ruchbah">>, <<"Ruchbah", "Segin">> >>]

\* the table with an edge of Ursa Minor that ends at a star of Draco
ConstellationsLooseEdge ==
    <<[UrsaMinor EXCEPT !.edges[7] = <<"Kochab", "Thuban">>],
      UrsaMajor, Draco, Cepheus, Cassiopeia>>

\* the dict CONSTELLATIONS, in insertion order
CONSTELLATIONS == <<UrsaMinor, UrsaMajor, Draco, Cepheus, Cassiopeia>>

\* list_constellations: list(CONSTELLATIONS.keys())
ListConstellations == [i \in DOMAIN CONSTELLATIONS |-> CONSTELLATIONS[i].name]

KeyError == [kind |-> "KeyError"]
TypeError == [kind |-> "TypeError"]

\* the spelling of a name with capitals put back
Capitalised(name) ==
    CASE name = "ursa minor" -> "Ursa Minor"
      [] name = "draco" -> "Draco"
      [] OTHER -> name

\* a lookup that ignores the case of the name
DefinitionIgnoringCase(name) ==
    IF \E i \in DOMAIN CONSTELLATIONS : CONSTELLATIONS[i].name = Capitalised(name)
    THEN Ok(CONSTELLATIONS[CHOOSE i \in DOMAIN CONSTELLATIONS :
                                CONSTELLATIONS[i].name = Capitalised(name)])
    ELSE KeyError

\* get_constellation_definition: `name not in CONSTELLATIONS` compares the
\* strings as they are
GetConstellationDefinition(name) ==
    IF \E i \in DOMAIN CONSTELLATIONS : CONSTELLATIONS[i].name = name
    THEN Ok(CONSTELLATIONS[CHOOSE i \in DOMAIN CONSTELLATIONS :
                                CONSTELLATIONS[i].name = name])
    ELSE KeyError

\* catalog_index = {s.name: s for s in load_star_catalog()}: the positions of
\* the catalog the index keeps, a later star replacing an earlier one of the
\* same name
CatalogIndex(cat) ==
    {i \in DOMAIN cat : \A j \in DOMAIN cat : cat[j].name = cat[i].name => j <= i}

\* the stars of the index that the definition names, in catalog order
PositionedCatalogOrder(star_names, cat, horiz) ==
    LET keep == {i \in CatalogIndex(cat) :
                    \E k \in DOMAIN star_names : star_names[k] = cat[i].name}
        items == [i \in DOMAIN cat |->
                    [name |-> cat[i].name, magnitude |-> cat[i].magnitude,
                     altitude_deg |-> horiz[i].altitude_deg,
                     azimuth_deg |-> horiz[i].azimuth_deg % 360]]
    IN  SelectWhere(items, keep)

\* lines 689-704: the stars of the definition found in the index, in the
\* order of the definition
RECURSIVE Positioned(_, _, _)
Positioned(star_names, cat, horiz) ==
    IF star_names = <<>> THEN <<>>
    ELSE LET name == star_names[1]
             rest == Positioned(Tail(star_names), cat, horiz)
             hit == {i \in CatalogIndex(cat) : cat[i].name = name}
         IN  IF hit = {} THEN rest
             ELSE LET i == CHOOSE k \in hit : TRUE
                  IN  <<[name |-> name, magnitude |-> cat[i].magnitude,
                         altitude_deg |-> horiz[i].altitude_deg,
                         azimuth_deg |-> horiz[i].azimuth_deg % 360]>> \o rest

\* get_constellation_frame; horiz[i] is the apparent altaz() of catalog star i
GetConstellationFrame(cat, constellation_name, when, now, horiz) ==
    LET dt == ParseIsoDatetimeUtc(when, now)
        definition == GetConstellationDefinition(constellation_name)
    IN  IF ~IsOk(dt) THEN ValueError
        ELSE IF ~IsOk(definition) THEN KeyError
        ELSE Ok([name |-> constellation_name,
                 at |-> FormatDatetimeIsoZ(dt.val),
                 stars |-> Positioned(definition.val.stars, cat, horiz),
                 edges |-> definition.val.edges])

\* the keyword-only parameters of get_constellation_frame
FrameKeywords ==
    {"constellation_name", "latitude_deg", "longitude_deg", "when_iso_utc"}

\* a call f(**given) of a function whose parameters are `accepted`: Python
\* raises TypeError for an unexpected keyword before the body runs
CallWithKeywords(accepted, given, result) ==
    IF given \subseteq accepted THEN result ELSE TypeError

\* the body of the handler constellation_frame
ConstellationFrameResponse(cat, name, at, now, horiz) ==
    LET call == CallWithKeywords(FrameKeywords,
                    FrameKeywords \cup {"minimum_altitude_deg"},
                    GetConstellationFrame(cat, name, at, now, horiz))
    IN  [call |-> call,
         http |-> IF IsOk(call) THEN Http200(call.val)
                  ELSE Http200([name |-> name, stars |-> <<>>, edges |-> <<>>,
                                error |-> call.kind])]

-----------------------------------------------------------------------------
(* Actions: constellation requests *)

\* names a request may carry: the defined ones, two of them in lower case,
\* and one that is not defined
RequestedNames ==
    {CONSTELLATIONS[i].name : i \in DOMAIN CONSTELLATIONS}
    \cup {"ursa minor", "draco", "Orion"}

FrameStarNames == {"Polaris", "Kochab", "Sirius"}

\* catalogs of at most MaxStars stars; a name may occur twice
FrameCatalogs ==
    UNION {[1..n -> [name : FrameStarNames, magnitude : {2}]] : n \in 0..MaxStars}

FrameHorizontals ==
    {[altitude_deg |-> 1, azimuth_deg |-> 0], [altitude_deg |-> 0, azimuth_deg |-> 359]}

\* a call of get_constellation_definition(name)
CallGetConstellationDefinition ==
    /\ phase = "idle"
    /\ \E name \in RequestedNames :
        /\ req' = [name |-> name]
        /\ resp' = GetConstellationDefinition(name)
    /\ op' = "get_constellation_definition"
    /\ phase' = "responded"
    /\ UNCHANGED static

\* a call of get_constellation_frame(...)
CallGetConstellationFrame ==
    /\ phase = "idle"
    /\ \E name \in RequestedNames, when \in {NoTime, BadTime, Iso(0)},
          horiz \in [DOMAIN catalog -> FrameHorizontals] :
        /\ req' = [name |-> name, when |-> when, horiz |-> horiz]
        /\ resp' = GetConstellationFrame(catalog, name, when, 0, horiz)
    /\ op' = "get_constellation_frame"
    /\ phase' = "responded"
    /\ UNCHANGED static

\* GET /constellation-frame
ConstellationFrame ==
    /\ phase = "idle"
    /\ \E name \in RequestedNames, at \in {NoTime, BadTime, Iso(0)},
          horiz \in [DOMAIN catalog -> FrameHorizontals] :
        /\ req' = [name |-> name, at |-> at, horiz |-> horiz]
        /\ resp' = ConstellationFrameResponse(catalog, name, at, 0, horiz)
    /\ op' = "/constellation-frame"
    /\ phase' = "responded"
    /\ UNCHANGED static

InitConstellation ==
    /\ Idle
    /\ LoadersAtStart
    /\ catalog \in FrameCatalogs

NextConstellation ==
    \/ CallGetConstellationDefinition
    \/ CallGetConstellationFrame
    \/ ConstellationFrame
    \/ Deliver

SpecConstellation == InitConstellation /\ [][NextConstellation]_vars

-----------------------------------------------------------------------------
(* GET /constellations-screen and GET /iau-in-fov: the centre of the field  *)
(* of view.  Degrees are integers.  project_constellations_to_screen and    *)
(* resolve_iau_in_fov are imported by main.py from star_service but are not *)
(* part of the sources at hand; of them the model keeps what sections 4.8   *)
(* and 7 of the specification say of every operation that takes an instant: *)
(* a malformed instant is a ValueError.                                     *)

\* raise HTTPException(status_code=422, ...)
HTTPException422 == [kind |-> "HTTPException", status_code |-> 422]
Http422 == [status |-> 422, body |-> [detail |-> "Requiere centro"]]

Clamp90(x) == IF x > 90 THEN 90 ELSE IF x < -90 THEN -90 ELSE x

\* a centre azimuth taken from fov_center_az_deg whenever it is given
FovCenterAzExplicitFirst(yaw_deg, heading_offset_deg, fov_center_az_deg) ==
    IF ~IsNone(fov_center_az_deg) THEN Ok(Val(fov_center_az_deg))
    ELSE IF ~IsNone(yaw_deg) THEN Ok((Val(yaw_deg) + heading_offset_deg) % 360)
    ELSE HTTPException422

\* main.py 309-314 and 408-413
FovCenterAz(yaw_deg, heading_offset_deg, fov_center_az_deg) ==
    IF ~IsNone(yaw_deg) THEN Ok((Val(yaw_deg) + heading_offset_deg) % 360)
    ELSE IF IsNone(fov_center_az_deg) THEN HTTPException422
    ELSE Ok(Val(fov_center_az_deg))

\* main.py 316-326 and 414-424
FovCenterAlt(pitch_deg, pitch_offset_deg, fov_center_alt_deg) ==
    IF ~IsNone(pitch_deg) THEN Ok(Clamp90(Val(pitch_deg) + pitch_offset_deg))
    ELSE IF IsNone(fov_center_alt_deg) THEN HTTPException422
    ELSE Ok(Val(fov_center_alt_deg))

\* the two derivations in the order of the handlers: the centre, or the
\* first exception
FovCenter(q) ==
    LET az == FovCenterAz(q.yaw_deg, q.heading_offset_deg, q.fov_center_az_deg)
        alt == FovCenterAlt(q.pitch_deg, q.pitch_offset_deg, q.fov_center_alt_deg)
    IN  IF ~IsOk(az) THEN az
        ELSE IF ~IsOk(alt) THEN alt
        ELSE Ok([fov_center_az_deg |-> az.val, fov_center_alt_deg |-> alt.val])

\* project_constellations_to_screen, resolve_iau_in_fov: the answer, or
\* ValueError for a malformed instant
WithInstant(when_iso_utc, now, answer) ==
    IF IsOk(ParseIsoDatetimeUtc(when_iso_utc, now)) THEN Ok(answer) ELSE ValueError

\* `at or <default>`
AtOr(at, default) == IF at.form \in {"none", "empty"} THEN default ELSE at

\* what the request carries for the centre
FovQueries ==
    [yaw_deg : {None, Some(-30), Some(350)},
     heading_offset_deg : {0, 20},
     fov_center_az_deg : {None, Some(400)},
     pitch_deg : {None, Some(80), Some(-95)},
     pitch_offset_deg : {0, 15},
     fov_center_alt_deg : {None, Some(45)}]

\* the handler of either endpoint: the centre first; the callee is called
\* only with a centre, and `called` keeps the centre it was called with
FovRequest(path, q, at, answer, body) ==
    LET center == FovCenter(q)
        call == IF IsOk(center) THEN WithInstant(at, 0, answer) ELSE center
    IN  /\ req' = [q |-> q, at |-> at]
        /\ op' = path
        /\ resp' = [call |-> call,
                    called |-> IF IsOk(center) THEN Some(center.val) ELSE None,
                    http |-> IF ~IsOk(center) THEN Http422
                             ELSE IF IsOk(call) THEN Http200(body)
                             ELSE Surface(call)]
        /\ phase' = "responded"
        /\ UNCHANGED static

\* GET /constellations-screen
ConstellationsScreen ==
    /\ phase = "idle"
    /\ \E q \in FovQueries, at \in {NoTime, BadTime, Iso(0)} :
        FovRequest("/constellations-screen", q, at, <<>>,
                   [at |-> AtOr(at, [form |-> "now"]), frames |-> <<>>])

\* GET /iau-in-fov
IauInFov ==
    /\ phase = "idle"
    /\ \E q \in FovQueries, at \in {NoTime, BadTime, Iso(0)},
          name \in {None, Some("UMi")} :
        FovRequest("/iau-in-fov", q, at, name,
                   [at |-> AtOr(at, Iso(0)), iau_constellation |-> name])

InitFov ==
    /\ Idle
    /\ LoadersAtStart
    /\ catalog = <<>>

NextFov == ConstellationsScreen \/ IauInFov \/ Deliver

SpecFov == InitFov /\ [][NextFov]_vars

-----------------------------------------------------------------------------
(* iau.find_constellation_by_radec.  Degrees are integers; a polygon is a   *)
(* sequence of <<ra, dec>> pairs; the table of boundaries is the sequence   *)
(* of the items of the dict load_iau_boundaries returns, in its order.      *)

\* _wrap_ra_to_center, for one value
WrapRaToCenter(ra, center_ra) ==
    center_ra + (((ra - center_ra + 180) % 360) - 180)

\* x < (x2 - x1) * (y - y1) / (y2 - y1 + 1e-12) + x1 for y2 # y1: the
\* quotient with 1e-12 added to the divisor lies strictly nearer to zero
\* than the exact quotient, so the points that lie on the edge are to its left
\* when the quotient is negative
LeftOfEdge(x, y, p1, p2) ==
    LET n == (p2[1] - p1[1]) * (y - p1[2])
        d == p2[2] - p1[2]
        a == (x - p1[1]) * d
    IN  IF d > 0 THEN a < n \/ (a = n /\ n < 0)
        ELSE a > n \/ (a = n /\ n < 0)

\* poly[(i + 1) % n], with the indexes of a sequence
NextVertex(poly, i) == poly[(i % Len(poly)) + 1]

\* edges counted when an end of the edge may lie on the ray
CrossedEdgesClosed(x, y, poly) ==
    {i \in DOMAIN poly :
        /\ (poly[i][2] >= y) # (NextVertex(poly, i)[2] > y)
        /\ poly[i][2] # NextVertex(poly, i)[2]
        /\ LeftOfEdge(x, y, poly[i], NextVertex(poly, i))}

\* lines 109-117: the edges i, from poly[i] to the next vertex, at which
\* `intersect` is true
CrossedEdges(x, y, poly) ==
    {i \in DOMAIN poly :
        /\ (poly[i][2] > y) # (NextVertex(poly, i)[2] > y)
        /\ LeftOfEdge(x, y, poly[i], NextVertex(poly, i))}

\* _point_in_polygon_2d: `inside` is toggled once per edge the ray crosses
PointInPolygon2d(x, y, poly) ==
    Len(poly) >= 3 /\ Cardinality(CrossedEdges(x, y, poly)) % 2 = 1

\* the test of one polygon in the loop of find_constellation_by_radec
PolygonHolds(poly, ra, dec) ==
    PointInPolygon2d(ra, dec,
        [i \in DOMAIN poly |-> <<WrapRaToCenter(poly[i][1], ra), poly[i][2]>>])

\* the name of the last constellation with a polygon that holds the point
FindLastConstellation(boundaries, ra_deg, dec_deg) ==
    LET ra == ra_deg % 360
        dec == Clamp90(dec_deg)
        hits == {i \in DOMAIN boundaries :
                    \E k \in DOMAIN boundaries[i].polys :
                        PolygonHolds(boundaries[i].polys[k], ra, dec)}
    IN  IF hits = {} THEN None
        ELSE Some(boundaries[CHOOSE i \in hits : \A j \in hits : j <= i].name)

\* find_constellation_by_radec
FindConstellationByRadec(boundaries, ra_deg, dec_deg) ==
    LET ra == ra_deg % 360
        dec == Clamp90(dec_deg)
        hits == {i \in DOMAIN boundaries :
                    \E k \in DOMAIN boundaries[i].polys :
                        PolygonHolds(boundaries[i].polys[k], ra, dec)}
    IN  IF boundaries = <<>> THEN None
        ELSE IF hits = {} THEN None
        ELSE Some(boundaries[CHOOSE i \in hits : \A j \in hits : i <= j].name)

\* a region across ra = 0, one that overlaps it, one that reaches the south
\* pole and a triangle
CetusRegion == << <<350, -10>>, <<10, -10>>, <<10, 10>>, <<350, 10>> >>
PiscesRegion == << <<0, 0>>, <<20, 0>>, <<20, 20>>, <<0, 20>> >>
PolarRegion == << <<100, -90>>, <<120, -90>>, <<120, -80>>, <<100, -80>> >>
TriangleRegion == << <<200, 0>>, <<220, 0>>, <<210, 20>> >>

BoundaryTables ==
    { <<>>,
      << [name |-> "Cet", polys |-> <<CetusRegion>>],
         [name |-> "Psc", polys |-> <<PiscesRegion, PolarRegion>>] >>,
      << [name |-> "Psc", polys |-> <<PiscesRegion, PolarRegion>>],
         [name |-> "Cet", polys |-> <<CetusRegion>>] >>,
      << [name |-> "Tri", polys |-> <<TriangleRegion>>] >> }

RaInputs == {-355, -10, 0, 5, 10, 15, 110, 205, 210, 365, 725}
DecInputs == {-95, -90, -85, 0, 5, 10, 15, 20, 90, 95}

\* a call of find_constellation_by_radec(ra_deg, dec_deg); the first call
\* loads the table from the file, later calls get it from the lru_cache
CallFindConstellationByRadec ==
    /\ phase = "idle"
    /\ \E file \in BoundaryTables, ra_deg \in RaInputs, dec_deg \in DecInputs :
        LET boundaries == IF IsNone(cache["boundaries"]) THEN file
                          ELSE Val(cache["boundaries"])
        IN  /\ req' = [ra_deg |-> ra_deg, dec_deg |-> dec_deg,
                       boundaries |-> boundaries]
            /\ resp' = FindConstellationByRadec(boundaries, ra_deg, dec_deg)
            /\ cache' = [cache EXCEPT !["boundaries"] = Some(boundaries)]
            /\ loads' = [loads EXCEPT !["boundaries"] = 1]
    /\ op' = "find_constellation_by_radec"
    /\ phase' = "responded"
    /\ UNCHANGED <<catalog, threads, frameCache>>

InitIau ==
    /\ Idle
    /\ LoadersAtStart
    /\ catalog = <<>>

NextIau == CallFindConstellationByRadec \/ Deliver

SpecIau == InitIau /\ [][NextIau]_vars

-----------------------------------------------------------------------------
(* Actions: _point_in_polygon_2d on its own *)

\* two points, a square, a diamond and a pentagon with a notch
TestPolygons ==
    { << <<0, 0>>, <<4, 0>> >>,
      << <<0, 0>>, <<4, 0>>, <<4, 4>>, <<0, 4>> >>,
      << <<2, 0>>, <<4, 2>>, <<2, 4>>, <<0, 2>> >>,
      << <<0, 0>>, <<6, 0>>, <<6, 4>>, <<3, 2>>, <<0, 4>> >> }

\* a call of _point_in_polygon_2d(x, y, poly); resp.crossed holds the edges
\* at which the loop toggled `inside`
CallPointInPolygon2d ==
    /\ phase = "idle"
    /\ \E poly \in TestPolygons, x \in (-1)..7, y \in (-1)..5 :
        /\ req' = [x |-> x, y |-> y, poly |-> poly]
        /\ resp' = [inside |-> PointInPolygon2d(x, y, poly),
                    crossed |-> IF Len(poly) < 3 THEN {}
                                ELSE CrossedEdges(x, y, poly)]
    /\ op' = "_point_in_polygon_2d"
    /\ phase' = "responded"
    /\ UNCHANGED static

InitPolygon ==
    /\ Idle
    /\ LoadersAtStart
    /\ catalog = <<>>

NextPolygon == CallPointInPolygon2d \/ Deliver

SpecPolygon == InitPolygon /\ [][NextPolygon]_vars

-----------------------------------------------------------------------------
(* Actions: the test of one polygon by find_constellation_by_radec *)

\* a region around ra = 180
MidRegion == << <<170, -10>>, <<190, -10>>, <<190, 10>>, <<170, 10>> >>

WrapRegions == {CetusRegion, PiscesRegion, TriangleRegion, MidRegion}

\* lines 133-138 for one polygon of the table and a point already reduced to
\* ra in [0, 360): the vertex right ascensions after _wrap_ra_to_center, and
\* what _point_in_polygon_2d answers for the recentred polygon
CallPolygonTest ==
    /\ phase = "idle"
    /\ \E poly \in WrapRegions, dec \in {-5, 5, 15},
          ra \in {0, 5, 15, 100, 175, 180, 185, 205, 270, 355} :
        /\ req' = [poly |-> poly, ra |-> ra, dec |-> dec]
        /\ resp' = [ra_adj |-> [i \in DOMAIN poly |->
                                    WrapRaToCenter(poly[i][1], ra)],
                    inside |-> PolygonHolds(poly, ra, dec)]
    /\ op' = "polygon_test"
    /\ phase' = "responded"
    /\ UNCHANGED static

InitWrap ==
    /\ Idle
    /\ LoadersAtStart
    /\ catalog = <<>>

NextWrap == CallPolygonTest \/ Deliver

SpecWrap == InitWrap /\ [][NextWrap]_vars

-----------------------------------------------------------------------------
(* Actions: _parse_iso_datetime_utc on its own *)

TimeTexts ==
    {TimeText(pad, date, sep, wall, suffix, 0) :
        pad \in BOOLEAN, date \in {"iso", "10/01/2025"}, sep \in {"T", " ", "x"},
        wall \in {0, TicksPerSecond}, suffix \in {"", "Z", "z", "ZZ"}}
    \cup {TimeText(pad, "iso", sep, wall, "offset", offset) :
            pad \in BOOLEAN, sep \in {"T", "x"}, wall \in {0, TicksPerSecond},
            offset \in {-1, 0, 2}}

CallParseIsoDatetimeUtc ==
    /\ phase = "idle"
    /\ \E when_iso_utc \in {NoTime, EmptyTime, BlankTime, BadTime} \cup TimeTexts,
          now \in {0, 1} :
        /\ req' = [when_iso_utc |-> when_iso_utc, now |-> now]
        /\ resp' = ParseIsoDatetimeUtc(when_iso_utc, now)
    /\ op' = "_parse_iso_datetime_utc"
    /\ phase' = "responded"
    /\ UNCHANGED static

InitParse ==
    /\ Idle
    /\ LoadersAtStart
    /\ catalog = <<>>

NextParse == CallParseIsoDatetimeUtc \/ Deliver

SpecParse == InitParse /\ [][NextParse]_vars

-----------------------------------------------------------------------------
(* star_service._equatorial_to_horizontal.  Angles are floating-point       *)
(* numbers with four significant bits, counted in units of 1/Turn of a full *)
(* turn: every integer below Turn/16 is a number, from Turn/16 to Turn/8    *)
(* every second one, and so on, the spacing doubling where the magnitude    *)
(* doubles.  A sum that is not a number is rounded to the nearest number,   *)
(* to the even one of two equally near.                                     *)

Turn == 256     \* 360.0

Abs(x) == IF x < 0 THEN -x ELSE x

Spacing(x) ==
    IF Abs(x) >= 2 * Turn THEN Turn \div 4
    ELSE IF Abs(x) >= Turn THEN Turn \div 8
    ELSE IF Abs(x) >= Turn \div 2 THEN Turn \div 16
    ELSE IF Abs(x) >= Turn \div 4 THEN Turn \div 32
    ELSE IF Abs(x) >= Turn \div 8 THEN Turn \div 64
    ELSE IF Abs(x) >= Turn \div 16 THEN Turn \div 128
    ELSE 1

Representable(x) == x % Spacing(x) = 0

\* the floating-point number a positive exact result is rounded to
RoundToFloat(x) ==
    LET sp == Spacing(x)
        lo == (x \div sp) * sp
        hi == lo + sp
    IN  IF x - lo < hi - x THEN lo
        ELSE IF x - lo > hi - x THEN hi
        ELSE IF (lo \div sp) % 2 = 0 THEN lo ELSE hi

\* C fmod: the remainder has the sign of the dividend, and is exact
Fmod(x, m) == IF x >= 0 THEN x % m ELSE -((-x) % m)

\* _normalize_degrees_360: deg % 360.0.  Python computes fmod(deg, 360.0) and,
\* when the remainder is negative, adds 360.0 to it in floating point
NormalizeDegrees360(deg) ==
    LET mod == Fmod(deg, Turn)
    IN  IF mod < 0 THEN RoundToFloat(mod + Turn) ELSE mod

\* the last three lines of _equatorial_to_horizontal; alt_deg is
\* degrees(asin(..)) and az_deg is degrees(atan2(..))
EquatorialToHorizontal(alt_deg, az_deg) ==
    [altitude_deg |-> alt_deg, azimuth_deg |-> NormalizeDegrees360(az_deg)]

\* the values of degrees(asin(..)): from -90 to 90
AsinDegrees == {x \in (-(Turn \div 4))..(Turn \div 4) : Representable(x)}
\* the values of degrees(atan2(..)): from -180 to 180
Atan2Degrees == {x \in (-(Turn \div 2))..(Turn \div 2) : Representable(x)}

\* a call of _equatorial_to_horizontal
CallEquatorialToHorizontal ==
    /\ phase = "idle"
    /\ \E alt_deg \in AsinDegrees, az_deg \in Atan2Degrees :
        /\ req' = [alt_deg |-> alt_deg, az_deg |-> az_deg]
        /\ resp' = EquatorialToHorizontal(alt_deg, az_deg)
    /\ op' = "_equatorial_to_horizontal"
    /\ phase' = "responded"
    /\ UNCHANGED static

\* a call of get_visible_stars with its default arguments: the position of
\* each star is what _equatorial_to_horizontal returns for it
CallGetVisibleStarsDefault ==
    /\ phase = "idle"
    /\ \E alt_deg \in AsinDegrees, az_deg \in Atan2Degrees :
        /\ req' = [alt_deg |-> alt_deg, az_deg |-> az_deg]
        /\ resp' = GetVisibleStars(catalog, NoTime, 0,
                        [i \in DOMAIN catalog |->
                            EquatorialToHorizontal(alt_deg, az_deg)],
                        -(Turn \div 4), None, TRUE, None)
    /\ op' = "get_visible_stars"
    /\ phase' = "responded"
    /\ UNCHANGED static

InitHorizontal ==
    /\ Idle
    /\ LoadersAtStart
    /\ catalog = <<[name |-> 1, magnitude |-> 1]>>

NextHorizontal ==
    \/ CallEquatorialToHorizontal
    \/ CallGetVisibleStarsDefault
    \/ Deliver

SpecHorizontal == InitHorizontal /\ [][NextHorizontal]_vars

-----------------------------------------------------------------------------
(* star_service._az_to_cardinal8, in the same floating-point numbers: 22.5  *)
(* is Turn/16 and 45 is Turn/8.                                             *)

Dirs == <<"N", "NE", "E", "SE", "S", "SW", "W", "NW">>

\* ix = int(((azimuth_deg % 360.0) + 22.5) // 45) % 8: the sum is rounded,
\* the floor division of the rounded sum is exact
AzToCardinal8(azimuth_deg) ==
    LET sum == RoundToFloat(NormalizeDegrees360(azimuth_deg) + Turn \div 16)
    IN  Dirs[((sum \div (Turn \div 8)) % 8) + 1]

\* azimuths from two turns below zero to two turns
AzimuthInputs == {x \in (-(2 * Turn))..(2 * Turn) : Representable(x)}

\* a call of _az_to_cardinal8
CallAzToCardinal8 ==
    /\ phase = "idle"
    /\ \E azimuth_deg \in AzimuthInputs :
        /\ req' = [azimuth_deg |-> azimuth_deg]
        /\ resp' = AzToCardinal8(azimuth_deg)
    /\ op' = "_az_to_cardinal8"
    /\ phase' = "responded"
    /\ UNCHANGED static

InitCardinal ==
    /\ Idle
    /\ LoadersAtStart
    /\ catalog = <<>>

NextCardinal == CallAzToCardinal8 \/ Deliver

SpecCardinal == InitCardinal /\ [][NextCardinal]_vars

-----------------------------------------------------------------------------
(* GET /constellations-frames.  get_all_constellations_frames is imported   *)
(* by main.py from star_service but is not part of the sources at hand; it  *)
(* is modelled from section 4.7 of the specification: frames for all        *)
(* constellations, each marked below_horizon, the below-horizon ones left   *)
(* out unless include_below_horizon, the result cached by (observer,        *)
(* instant bucket, options) in a bounded LRU cache.  A cache hit hands out  *)
(* the list the cache holds.                                                *)
(* An entry of frameCache is [key, frames, built]: frames is the content of *)
(* the cached list now, built its content when it was constructed.          *)

MaxBuckets == 2         \* capacity of the frame cache

FrameKey(lat, second, cache_bucket_s, include_below_horizon) ==
    [lat |-> lat, bucket |-> second \div cache_bucket_s,
     cache_bucket_s |-> cache_bucket_s,
     include_below_horizon |-> include_below_horizon]

\* the frames of section 4.7 for the constellations in `below` being under
\* the horizon
BuildFrames(below, include_below_horizon) ==
    LET all == [i \in DOMAIN CONSTELLATIONS |->
                    [name |-> CONSTELLATIONS[i].name,
                     below_horizon |-> CONSTELLATIONS[i].name \in below,
                     style |-> None]]
    IN  SelectWhere(all, {i \in DOMAIN all :
                            include_below_horizon \/ ~all[i].below_horizon})

CachedAt(fc, key) == {i \in DOMAIN fc : fc[i].key = key}

\* the cache after a use of `entry`: most recently used last, the least
\* recently used entry dropped when the capacity is exceeded
Touch(fc, entry) ==
    LET others == SelectWhere(fc, {i \in DOMAIN fc : fc[i].key # entry.key})
        grown == Append(others, entry)
    IN  IF Len(grown) > MaxBuckets THEN Tail(grown) ELSE grown

DimStyle == [variant |-> "dim", opacity |-> 35]
NormalStyle == [variant |-> "normal", opacity |-> 100]

\* main.py lines 519-524: f["style"] = ... for every frame of the list
Annotate(frames) ==
    [i \in DOMAIN frames |->
        [frames[i] EXCEPT !.style =
            Some(IF frames[i].below_horizon THEN DimStyle ELSE NormalStyle)]]

FrameBelowSets == {{}, {"Draco"}}

\* GET /constellations-frames
ConstellationsFrames ==
    /\ phase = "idle"
    /\ \E at \in {NoTime, BadTime, Iso(0), Iso(2 * TicksPerSecond)},
          include_below_horizon \in BOOLEAN, dim_below_horizon \in BOOLEAN,
          below \in FrameBelowSets :
        LET dt == ParseIsoDatetimeUtc(at, 0)
            key == FrameKey(89, FormatDatetimeIsoZ(dt.val), 1,
                            include_below_horizon)
            hit == CachedAt(frameCache, key)
            built == IF hit = {}
                     THEN BuildFrames(below, include_below_horizon)
                     ELSE frameCache[CHOOSE i \in hit : TRUE].built
            frames == IF hit = {} THEN built
                      ELSE frameCache[CHOOSE i \in hit : TRUE].frames
            out == IF dim_below_horizon THEN Annotate(frames) ELSE frames
        IN  /\ req' = [at |-> at, now |-> 0, lat |-> 89, cache_bucket_s |-> 1,
                       include_below_horizon |-> include_below_horizon,
                       dim_below_horizon |-> dim_below_horizon,
                       below |-> below]
            /\ IF IsOk(dt)
               THEN /\ frameCache' = Touch(frameCache,
                            [key |-> key, frames |-> out, built |-> built])
                    /\ resp' = [call |-> Ok(frames),
                                http |-> Http200(
                                    [at |-> IF at.form = "iso"
                                            THEN Some(FormatDatetimeIsoZ(at.t))
                                            ELSE None,
                                     frames |-> out])]
               ELSE /\ frameCache' = frameCache
                    /\ resp' = [call |-> ValueError,
                                http |-> Http200([frames |-> <<>>])]
    /\ op' = "/constellations-frames"
    /\ phase' = "responded"
    /\ UNCHANGED <<catalog, cache, threads, loads>>

InitFrames ==
    /\ Idle
    /\ LoadersAtStart
    /\ catalog = <<>>

NextFrames == ConstellationsFrames \/ Deliver

SpecFrames == InitFrames /\ [][NextFrames]_vars

-----------------------------------------------------------------------------
(* star_service.load_star_catalog.  The file is a list of JSON objects; the *)
(* state of a key in an object is: absent, null, a string float() rejects,  *)
(* or a number.                                                             *)

Absent == [json |-> "absent"]
Null == [json |-> "null"]
Text == [json |-> "string"]
Num(v) == [json |-> "number", v |-> v]

\* item.get(key, item.get(fallback)): the value under key when the key is
\* there, whatever it is; else the value under fallback; else None
GetWithFallback(item, key, fallback) ==
    IF item[key] # Absent THEN item[key]
    ELSE IF item[fallback] # Absent THEN item[fallback]
    ELSE Null

\* float(x) of a value that is not None
Float(x) == IF x.json = "number" THEN Ok(x.v) ELSE ValueError

\* float(item[k]) if k in item and item[k] is not None else None
OptionalFloat(x) == IF x \in {Absent, Null} THEN Ok(None)
                    ELSE IF x.json = "number" THEN Ok(Some(x.v)) ELSE ValueError

\* lines 49-69: one entry of the file
CatalogEntry(item) ==
    LET ra_value == GetWithFallback(item, "ra", "ra_hours")
        dec_value == GetWithFallback(item, "dec", "dec_deg")
        mag_value == GetWithFallback(item, "mag", "magnitude")
    IN  IF ra_value = Null \/ dec_value = Null \/ mag_value = Null
           \/ item["name"] = Absent
        THEN ValueError
        ELSE IF ~IsOk(Float(ra_value)) \/ ~IsOk(Float(dec_value))
                \/ ~IsOk(Float(mag_value))
                \/ ~IsOk(OptionalFloat(item["distance_ly"]))
        THEN ValueError
        ELSE Ok([name |-> IF item["name"] = Null THEN "None"
                          ELSE item["name"].v,
                 ra_hours |-> Float(ra_value).val,
                 dec_deg |-> Float(dec_value).val,
                 magnitude |-> Float(mag_value).val,
                 distance_ly |-> OptionalFloat(item["distance_ly"]).val])

\* the body of load_star_catalog: the list of stars, or the exception of the
\* first entry that raises
LoadStarCatalogBody(raw) ==
    IF \E i \in DOMAIN raw : ~IsOk(CatalogEntry(raw[i])) THEN ValueError
    ELSE Ok([i \in DOMAIN raw |-> CatalogEntry(raw[i]).val])

\* an entry in the schema {ra, dec, mag}
PlainEntry ==
    [k \in {"name", "ra", "ra_hours", "dec", "dec_deg", "mag", "magnitude",
            "distance_ly"} |->
        CASE k = "name" -> [json |-> "string", v |-> "A"]
          [] k \in {"ra", "dec", "mag"} -> Num(1)
          [] OTHER -> Absent]

\* entries that differ from PlainEntry in one respect
FileEntries ==
    {[PlainEntry EXCEPT !["ra"] = a, !["ra_hours"] = b] :
        a \in {Absent, Null, Text, Num(1)}, b \in {Absent, Null, Text, Num(2)}}
    \cup {[PlainEntry EXCEPT !["name"] = n] :
            n \in {Absent, Null, [json |-> "string", v |-> "B"]}}
    \cup {[PlainEntry EXCEPT !["dec"] = Absent, !["dec_deg"] = d,
                             !["mag"] = Absent, !["magnitude"] = m] :
            d \in {Absent, Num(3)}, m \in {Absent, Num(4)}}
    \cup {[PlainEntry EXCEPT !["distance_ly"] = d] : d \in {Null, Text, Num(5)}}

CatalogFiles ==
    UNION {[1..n -> FileEntries] : n \in 0..2}

\* mutant: a load that fails caches an empty catalog
LoadStarCatalogCachingFailure ==
    /\ phase = "idle"
    /\ \E raw \in CatalogFiles :
        LET hit == ~IsNone(cache["catalog"])
            result == IF hit THEN Ok(Val(cache["catalog"]))
                      ELSE LoadStarCatalogBody(raw)
        IN  /\ req' = [raw |-> raw, cached |-> hit]
            /\ resp' = result
            /\ cache' = IF IsOk(result)
                        THEN [cache EXCEPT !["catalog"] = Some(result.val)]
                        ELSE [cache EXCEPT !["catalog"] = Some(<<>>)]
            /\ loads' = IF hit THEN loads
                        ELSE [loads EXCEPT !["catalog"] = 1]
    /\ op' = "load_star_catalog"
    /\ phase' = "responded"
    /\ UNCHANGED <<catalog, threads, frameCache>>

\* a call of load_star_catalog() while the file content is raw: lru_cache
\* answers from the cache when it holds a result, and stores the result of
\* the body only when the body returns
LoadStarCatalog ==
    /\ phase = "idle"
    /\ \E raw \in CatalogFiles :
        LET hit == ~IsNone(cache["catalog"])
            result == IF hit THEN Ok(Val(cache["catalog"]))
                      ELSE LoadStarCatalogBody(raw)
        IN  /\ req' = [raw |-> raw, cached |-> hit]
            /\ resp' = result
            /\ cache' = IF IsOk(result)
                        THEN [cache EXCEPT !["catalog"] = Some(result.val)]
                        ELSE cache
            /\ loads' = IF hit THEN loads
                        ELSE [loads EXCEPT !["catalog"] = 1]
    /\ op' = "load_star_catalog"
    /\ phase' = "responded"
    /\ UNCHANGED <<catalog, threads, frameCache>>

InitCatalog ==
    /\ Idle
    /\ LoadersAtStart
    /\ catalog = <<>>

NextCatalog == LoadStarCatalog \/ Deliver

SpecCatalog == InitCatalog /\ [][NextCatalog]_vars

-----------------------------------------------------------------------------
(* iau.load_iau_boundaries and iau.get_iau_constellation_centroids on the   *)
(* content of iau_boundaries.json, in the floating-point numbers of         *)
(* _equatorial_to_horizontal: Turn is 360.0 and Turn/4 is 90.0.  A JSON     *)
(* value is null, a string float() rejects, a number or an array.           *)

Array(items) == [json |-> "array", items |-> items]
\* the object in the file: its names and their values in the order of the file
Object(entries) == [json |-> "object", entries |-> entries]

\* `for v in x or []`: the items of an array; nothing for null, for 0 (both
\* falsy) and for a string float() rejects (it yields its characters, none of
\* which is a vertex); TypeError for any other number
Iterate(x) ==
    IF x.json = "array" THEN Ok(x.items)
    ELSE IF x.json = "number" /\ x.v # 0 THEN TypeError
    ELSE Ok(<<>>)

\* lines 38-47 for the item p of a polygon: the vertex appended to pts, or
\* None where the try block raises (p is no array, p has fewer than two
\* items, or float() rejects one of the first two)
ParseVertex(p) ==
    IF p.json # "array" THEN None
    ELSE IF Len(p.items) < 2 THEN None
    ELSE IF ~IsOk(Float(p.items[1])) \/ ~IsOk(Float(p.items[2])) THEN None
    ELSE LET ra == NormalizeDegrees360(Float(p.items[1]).val)
             dec == Float(p.items[2]).val
         IN  Some(<<ra, IF dec > Turn \div 4 THEN Turn \div 4
                        ELSE IF dec < -(Turn \div 4) THEN -(Turn \div 4)
                        ELSE dec>>)

\* pts of lines 36-47 for the items of one polygon
ParsedVertices(items) ==
    LET kept == SelectSeq(items, LAMBDA p : ~IsNone(ParseVertex(p)))
    IN  [i \in DOMAIN kept |-> Val(ParseVertex(kept[i]))]

\* fixed_polys of lines 34-49 for the items of the value under one name
FixedPolys(polys) ==
    LET pts == [i \in DOMAIN polys |-> ParsedVertices(Iterate(polys[i]).val)]
    IN  SelectSeq(pts, LAMBDA q : Len(q) >= 3)

\* a loop of lines 35 or 37 raises under the name entry
LoopRaises(entry) ==
    \/ ~IsOk(Iterate(entry.polys))
    \/ \E i \in DOMAIN Iterate(entry.polys).val :
            ~IsOk(Iterate(Iterate(entry.polys).val[i]))

\* the body of load_iau_boundaries; raw is Absent while the file does not
\* exist, else the object in the file
LoadIauBoundariesBody(raw) ==
    IF raw = Absent THEN Ok(<<>>)
    ELSE IF \E i \in DOMAIN raw.entries : LoopRaises(raw.entries[i])
    THEN TypeError
    ELSE LET fixed == [i \in DOMAIN raw.entries |->
                        [name |-> raw.entries[i].name,
                         polys |-> FixedPolys(
                                    Iterate(raw.entries[i].polys).val)]]
         IN  Ok(SelectSeq(fixed, LAMBDA e : e.polys # <<>>))

RECURSIVE AllVertices(_)
\* the vertices of all the polygons of a constellation, lines 79-84
AllVertices(polys) ==
    IF polys = <<>> THEN <<>>
    ELSE Head(polys) \o AllVertices(Tail(polys))

RECURSIVE SumFloat(_)
\* sum(): the floating-point additions from left to right
SumFloat(values) ==
    IF values = <<>> THEN 0
    ELSE RoundToFloat(SumFloat(SubSeq(values, 1, Len(values) - 1))
                        + values[Len(values)])

\* a / float(n): the number nearest to the quotient, the even one of two
\* equally near
DivFloat(a, n) ==
    LET numbers == {f \in (-Abs(a))..Abs(a) : Representable(f)}
        nearest == {f \in numbers :
                        \A g \in numbers : Abs(n * f - a) <= Abs(n * g - a)}
    IN  CHOOSE f \in nearest :
            Cardinality(nearest) = 1 \/ (f \div Spacing(f)) % 2 = 0

\* _circular_mean_deg.  The sums of cosines and sines are not computed:
\* atan2_deg is the value of math.degrees(math.atan2(ys, xs)), any number
\* from -180 to 180; where both sums are 0.0 the function returns 0.0, which
\* is its result for the angle 0 as well
CircularMeanDeg(values_deg, atan2_deg) ==
    IF values_deg = <<>> THEN 0 ELSE NormalizeDegrees360(atan2_deg)

\* the body of get_iau_constellation_centroids from line 77 on
Centroids(boundaries, atan2_deg) ==
    LET centroid(e) ==
            LET all == AllVertices(e.polys)
                ra_all == [i \in DOMAIN all |-> all[i][1]]
                dec_all == [i \in DOMAIN all |-> all[i][2]]
            IN  [name |-> e.name,
                 ra |-> CircularMeanDeg(ra_all, atan2_deg),
                 dec |-> DivFloat(SumFloat(dec_all), Len(dec_all))]
        listed == SelectSeq(boundaries, LAMBDA e : AllVertices(e.polys) # <<>>)
    IN  [i \in DOMAIN listed |-> centroid(listed[i])]

\* the items a polygon is made of in the files below
GoodVertices ==
    {Array(<<Num(ra), Num(dec)>>) :
        ra \in {0, Turn \div 16, Turn - Turn \div 16},
        dec \in {-(Turn \div 8), Turn \div 4}}
OddVertices ==
    {Array(<<Num(-1), Num(0)>>),
     Array(<<Num(Turn + Turn \div 8), Num(Turn \div 2)>>),
     Array(<<Num(0), Num(-(Turn \div 2)), Text>>)}
BadVertices ==
    {Null, Text, Num(1), Array(<<>>), Array(<<Num(0)>>),
     Array(<<Text, Num(0)>>), Array(<<Num(0), Null>>)}

RawPolygons ==
    {Array(<<a, b, Array(<<Num(Turn \div 8), Num(0)>>)>>) :
        a \in {Array(<<Num(0), Num(Turn \div 8)>>)},
        b \in GoodVertices \cup OddVertices}
    \cup {Array(<<Array(<<Num(0), Num(0)>>), b,
                  Array(<<Num(Turn \div 8), Num(0)>>),
                  Array(<<Num(Turn \div 8), Num(Turn \div 8)>>)>>) :
            b \in BadVertices}
    \cup {Array(<<Array(<<Num(0), Num(0)>>), b,
                  Array(<<Num(Turn \div 8), Num(0)>>)>>) :
            b \in BadVertices}
    \cup {Null, Text, Num(0), Num(1), Array(<<>>)}

BoundaryFiles ==
    {Absent, Object(<<>>)}
    \cup {Object(<<[name |-> "Cet", polys |-> Array(<<p>>)]>>) :
            p \in RawPolygons}
    \cup {Object(<<[name |-> "Cet", polys |-> polys]>>) :
            polys \in {Null, Text, Num(0), Num(1), Array(<<>>)}}
    \cup {Object(<<[name |-> "Cet", polys |-> Array(<<p, q>>)],
                   [name |-> "Psc", polys |-> Array(<<q>>)]>>) :
            p \in {Array(<<>>), Array(<<Array(<<Num(0), Num(0)>>),
                                        Array(<<Num(0), Num(Turn \div 8)>>),
                                        Array(<<Num(-1), Num(0)>>)>>)},
            q \in {Num(1), Array(<<Text>>),
                   Array(<<Array(<<Num(Turn \div 4), Num(0)>>),
                           Array(<<Num(Turn \div 2), Num(0)>>),
                           Array(<<Num(Turn \div 2), Num(Turn)>>)>>)}}

\* a call of load_iau_boundaries() while the file content is raw, under
\* lru_cache as load_star_catalog is
LoadIauBoundaries ==
    /\ phase = "idle"
    /\ \E raw \in BoundaryFiles :
        LET hit == ~IsNone(cache["boundaries"])
            result == IF hit THEN Ok(Val(cache["boundaries"]))
                      ELSE LoadIauBoundariesBody(raw)
        IN  /\ req' = [raw |-> raw, cached |-> hit]
            /\ resp' = result
            /\ cache' = IF IsOk(result)
                        THEN [cache EXCEPT !["boundaries"] = Some(result.val)]
                        ELSE cache
            /\ loads' = IF hit THEN loads
                        ELSE [loads EXCEPT !["boundaries"] = 1]
    /\ op' = "load_iau_boundaries"
    /\ phase' = "responded"
    /\ UNCHANGED <<catalog, threads, frameCache>>

\* the angles atan2 answers in the calls below
MeanAngles == {-(Turn \div 2), -1, 0, Turn \div 16}

\* a call of get_iau_constellation_centroids() while the file content is
\* raw: on a miss it calls load_iau_boundaries(), and a table is cached by
\* each of the two as soon as its body returns
GetIauConstellationCentroids ==
    /\ phase = "idle"
    /\ \E raw \in BoundaryFiles, atan2_deg \in MeanAngles :
        LET hit == ~IsNone(cache["centroids"])
            loaded == ~IsNone(cache["boundaries"])
            boundaries == IF loaded THEN Ok(Val(cache["boundaries"]))
                          ELSE LoadIauBoundariesBody(raw)
            result == IF hit THEN Ok(Val(cache["centroids"]))
                      ELSE IF IsOk(boundaries)
                      THEN Ok(Centroids(boundaries.val, atan2_deg))
                      ELSE boundaries
        IN  /\ req' = [raw |-> raw, cached |-> hit, atan2_deg |-> atan2_deg]
            /\ resp' = result
            /\ cache' = IF hit \/ ~IsOk(result) THEN cache
                        ELSE [cache EXCEPT
                                !["boundaries"] = Some(boundaries.val),
                                !["centroids"] = Some(result.val)]
            /\ loads' = IF hit THEN loads
                        ELSE [loads EXCEPT !["boundaries"] = 1,
                                           !["centroids"] = 1]
    /\ op' = "get_iau_constellation_centroids"
    /\ phase' = "responded"
    /\ UNCHANGED <<catalog, threads, frameCache>>

InitBoundaries ==
    /\ Idle
    /\ LoadersAtStart
    /\ catalog = <<>>

NextBoundaries ==
    \/ LoadIauBoundaries
    \/ GetIauConstellationCentroids
    \/ Deliver

SpecBoundaries == InitBoundaries /\ [][NextBoundaries]_vars

-----------------------------------------------------------------------------
(* Properties of get_visible_bodies *)

BodiesReturned ==
    /\ phase = "responded"
    /\ op = "get_visible_bodies"
    /\ IsOk(resp)

\* C4: the result holds exactly the bodies, out of the nine, whose altitude is
\* >= minimum_altitude_deg (a body at the threshold is kept), each at most
\* once, in descending order of altitude
C4_BodiesFilteredAndSorted ==
    BodiesReturned
    => LET out == resp.val IN
       /\ \A k \in DOMAIN out :
            \E i \in DOMAIN Bodies :
                /\ out[k] = BodyItem(i, req.sky[i])
                /\ req.sky[i].altitude_deg >= req.minimum_altitude_deg
       /\ \A i \in DOMAIN Bodies :
            req.sky[i].altitude_deg >= req.minimum_altitude_deg
                => \E k \in DOMAIN out : out[k].name = Bodies[i].name
       /\ \A k, l \in DOMAIN out : k < l =>
            /\ out[k].name # out[l].name
            /\ out[k].altitude_deg >= out[l].altitude_deg

\* C4 witness: a body exactly at the threshold is returned behind a higher
\* one that comes later in the list of bodies, and another body is left out
C4_Witness ==
    /\ BodiesReturned
    /\ \E k, l \in DOMAIN resp.val :
        /\ k < l
        /\ resp.val[l].altitude_deg = req.minimum_altitude_deg
        /\ resp.val[k].altitude_deg > resp.val[l].altitude_deg
        /\ resp.val[l].name = "Sun"
        /\ resp.val[k].name = "Neptune"
    /\ Len(resp.val) < Len(Bodies)

\* C3: in every altitude-sorted output (get_visible_bodies, and
\* get_visible_stars with sort_by_magnitude = false) two entries of equal
\* altitude are in ascending order of azimuth
C3_AltitudeTiesByAzimuth ==
    /\ C3_StarTiesByAzimuth
    /\ BodiesReturned
        => \A k, l \in DOMAIN resp.val :
            (k < l /\ resp.val[k].altitude_deg = resp.val[l].altitude_deg)
                => resp.val[k].azimuth_deg <= resp.val[l].azimuth_deg

-----------------------------------------------------------------------------
(* Properties of the window operations and of the endpoints *)

WindowPaths ==
    {"/visible-stars-batch", "/visible-bodies-batch", "/astronomy-events"}

\* a window request whose start and end are both valid ISO instants, with
\* end <= start, has been handled
EmptyWindowHandled ==
    /\ phase = "responded"
    /\ op \in WindowPaths
    /\ req.start.form = "iso"
    /\ req.end.form = "iso"
    /\ req.end.t <= req.start.t

\* C5 (as stated): with end <= start, both valid, each of the three operations
\* yields an empty list, its endpoint answers 200 with an empty collection,
\* and no frame or event is computed
C5_EmptyWindowYieldsEmptyList ==
    EmptyWindowHandled
    => /\ resp.call = Done(<<>>, 0)
       /\ resp.http = IF op = "/astronomy-events" THEN Http200(<<>>)
                      ELSE Http200([frames |-> <<>>])

\* C5 (amended): with end <= start, both valid, the two batch operations
\* return an empty list and get_astronomy_events raises ValueError; in all
\* three no frame or event is computed and the endpoint answers 200 with an
\* empty collection
C5_EmptyWindowAnswersEmpty ==
    EmptyWindowHandled
    => /\ resp.call.work = 0
       /\ op = "/astronomy-events" =>
            /\ resp.call = Raised("ValueError", 0)
            /\ resp.http = Http200(<<>>)
       /\ op # "/astronomy-events" =>
            /\ resp.call = Done(<<>>, 0)
            /\ resp.http = Http200([frames |-> <<>>])

\* C5 witness: an events request whose end equals its start is answered 200
\* with an empty list after get_astronomy_events raised
C5_Witness ==
    /\ EmptyWindowHandled
    /\ op = "/astronomy-events"
    /\ req.end = req.start
    /\ resp.call.kind = "ValueError"
    /\ resp.http = Http200(<<>>)

\* the time parameters of the request in req
TimeParams ==
    CASE op \in WindowPaths -> {req.start, req.end}
      [] op = "/sky" -> {req.date}
      [] op \in {"/visible-stars", "/visible-bodies",
                 "/constellation-by-direction"} -> {req.at}
      [] OTHER -> {}

\* C6: on every endpoint a malformed time string is answered 400 with detail
\* and the fixed hint, never 200 with an empty collection
C6_MalformedTimeIs400 ==
    (phase = "responded" /\ BadTime \in TimeParams)
    => /\ resp.http.status = 400
       /\ resp.http.body.hint = Hint

\* the seconds the frames of the bodies batch in req are computed for
RequestedSeconds ==
    LET step == StepToTimedelta(req.step_hours)
    IN  {FormatDatetimeIsoZ(t) :
            t \in {u \in HttpTicks :
                    /\ req.start.t <= u /\ u <= req.end.t
                    /\ (u - req.start.t) % step = 0}}

\* C8: in a bodies batch over a valid window every frame in whose computation
\* no provider call fails is present in the response
C8_OnlyFailingItemDropped ==
    (/\ phase = "responded"
     /\ op = "/visible-bodies-batch"
     /\ req.start.form = "iso" /\ req.end.form = "iso"
     /\ req.start.t < req.end.t
     /\ StepToTimedelta(req.step_hours) > 0)
    => /\ resp.http.status = 200
       /\ \A sec \in RequestedSeconds :
            (IsNone(req.fault) \/ Val(req.fault).second # sec)
                => \E k \in DOMAIN resp.http.body.frames :
                        resp.http.body.frames[k].at = sec

-----------------------------------------------------------------------------
(* Properties of get_astronomy_events *)

EventsReturned ==
    /\ phase = "responded"
    /\ op = "get_astronomy_events"
    /\ IsOk(resp)

\* sample j of planet data d differs from the state before it
Transition(d, j) ==
    d.samples[j].st # (IF j = 1 THEN d.state0 ELSE d.samples[j - 1].st)

\* the first entry whose provider call raises; past the end when none does
PlanetFailurePoint(d) ==
    IF d.failAt = Some(0) THEN 0
    ELSE IF /\ ~IsNone(d.failAt)
            /\ Val(d.failAt) \in DOMAIN d.samples
            /\ Transition(d, Val(d.failAt))
         THEN Val(d.failAt)
         ELSE Len(d.samples) + 1

MoonFailurePoint(m) ==
    IF IsNone(m.failAt) THEN Len(m.events) + 1 ELSE Val(m.failAt)

\* the rise/set events of planet i up to its failure point
PlanetEventsBeforeFailure(i) ==
    LET d == req.planets[i]
    IN  {Event(IF d.samples[j].st THEN "planet_rise" ELSE "planet_set",
               EventPlanets[i], d.samples[j].t) :
            j \in {k \in DOMAIN d.samples :
                    Transition(d, k) /\ k < PlanetFailurePoint(d)}}

MoonEventsBeforeFailure ==
    {Event("moon_phase", "Moon", req.moon.events[j].t) :
        j \in {k \in DOMAIN req.moon.events : k < MoonFailurePoint(req.moon)}}

\* C7: a failure in one planet's computation removes only what that planet
\* would have contributed from the failure point on, and a failure in the
\* moon-phase computation only moon phases: the list returned holds exactly
\* the events each body had contributed before its own failure point
C7_FailureIsolatedPerBody ==
    EventsReturned
    => LET expected == MoonEventsBeforeFailure
                \cup UNION {PlanetEventsBeforeFailure(i) : i \in DOMAIN EventPlanets}
       IN  /\ Range(resp.val) = expected
           /\ Len(resp.val) = Cardinality(expected)

\* C7 witness: Mercury fails at its second transition and the moon-phase
\* computation fails at its only phase change; Mercury's first event and
\* Venus's event are returned
C7_Witness ==
    /\ EventsReturned
    /\ Len(req.planets[1].samples) = 2
    /\ Transition(req.planets[1], 1)
    /\ PlanetFailurePoint(req.planets[1]) = 2
    /\ Len(req.moon.events) = 1
    /\ req.moon.failAt = Some(1)
    /\ PlanetEventsBeforeFailure(2) # {}
    /\ Len(resp.val) = 2
    /\ \E k \in DOMAIN resp.val : resp.val[k].body = "Mercury"
    /\ \E k \in DOMAIN resp.val : resp.val[k].body = "Venus"

\* C9: the events returned are in ascending order of the instant they happen
\* at, and every type is planet_rise, planet_set or moon_phase
C9_SortedByEventTime ==
    EventsReturned
    => /\ \A k, l \in DOMAIN resp.val :
            k < l => resp.val[k].instant <= resp.val[l].instant
       /\ \A k \in DOMAIN resp.val :
            resp.val[k].type \in {"planet_rise", "planet_set", "moon_phase"}

-----------------------------------------------------------------------------
(* Properties of the cached loaders *)

\* C10: under every interleaving of first uses the body of each loader runs
\* at most once, and all workers that used a resource obtained the same object
C10_LoadedOncePerProcess ==
    /\ \A r \in Resources : loads[r] <= 1
    /\ \A w, v \in Workers :
        (~IsNone(threads[w].used) /\ threads[w].used = threads[v].used)
            => threads[w].got = threads[v].got

-----------------------------------------------------------------------------
(* Properties of the shared state *)

\* C11: no request handler writes into an object reachable from shared
\* state: every cached frame list still has the content it was built with
C11_SharedStateUnchanged ==
    \A i \in DOMAIN frameCache : frameCache[i].frames = frameCache[i].built

-----------------------------------------------------------------------------
(* Properties of load_star_catalog *)

\* the entry has a name and, for each of ra, dec and mag, a number under the
\* key of one of the two schemas
EntryValid(item) ==
    /\ item["name"] # Absent
    /\ item["ra"].json = "number" \/ item["ra_hours"].json = "number"
    /\ item["dec"].json = "number" \/ item["dec_deg"].json = "number"
    /\ item["mag"].json = "number" \/ item["magnitude"].json = "number"

\* C12: a load from the file fails, and caches nothing, if some entry lacks a
\* name or lacks a usable ra, dec or mag under both schemas; if every entry
\* is valid under either schema it returns one star per entry, in file order
C12_CatalogAllOrNothing ==
    (phase = "responded" /\ op = "load_star_catalog" /\ ~req.cached)
    => IF \A i \in DOMAIN req.raw : EntryValid(req.raw[i])
       THEN /\ IsOk(resp)
            /\ Len(resp.val) = Len(req.raw)
            /\ \A i \in DOMAIN req.raw :
                req.raw[i]["name"] # Null
                    => resp.val[i].name = req.raw[i]["name"].v
       ELSE /\ ~IsOk(resp)
            /\ IsNone(cache["catalog"])

-----------------------------------------------------------------------------
(* Properties of the constellation definitions and frames *)

Defined(name) == \E i \in DOMAIN CONSTELLATIONS : CONSTELLATIONS[i].name = name

DefinitionOf(name) ==
    CONSTELLATIONS[CHOOSE i \in DOMAIN CONSTELLATIONS : CONSTELLATIONS[i].name = name]

\* C13: a name that is not, letter for letter, a defined constellation makes
\* get_constellation_definition and get_constellation_frame fail with
\* KeyError, and GET /constellation-frame answers 200 with the name echoed,
\* stars [] and edges [] and an error field
C13_UnknownNameNotFound ==
    (phase = "responded" /\ ~Defined(req.name))
    => /\ op = "get_constellation_definition" => resp = KeyError
       /\ (op = "get_constellation_frame" /\ req.when # BadTime)
            => resp = KeyError
       /\ op = "/constellation-frame"
            => /\ resp.http.status = 200
               /\ DOMAIN resp.http.body = {"name", "stars", "edges", "error"}
               /\ resp.http.body.name = req.name
               /\ resp.http.body.stars = <<>>
               /\ resp.http.body.edges = <<>>

\* C13 witness: GET /constellation-frame with the name "ursa minor" answered
C13_Witness ==
    /\ phase = "responded"
    /\ op = "/constellation-frame"
    /\ req.name = "ursa minor"
    /\ req.at = Iso(0)

\* C14: for a defined name and a valid instant GET /constellation-frame
\* answers a frame whose edges are the edges of the definition and whose
\* stars are among the stars of the definition; for "Ursa Minor" at most 6
\* stars, exactly 7 edges, and no error field
C14_FrameOfDefinedName ==
    (phase = "responded" /\ op = "/constellation-frame"
        /\ Defined(req.name) /\ req.at # BadTime)
    => LET body == resp.http.body
           def == DefinitionOf(req.name)
       IN  /\ resp.http.status = 200
           /\ body.edges = def.edges
           /\ \A k \in DOMAIN body.stars :
                body.stars[k].name \in Range(def.stars)
           /\ req.name = "Ursa Minor"
                => /\ Len(body.stars) <= 6
                   /\ Len(body.edges) = 7
                   /\ "error" \notin DOMAIN body

\* the stars of the definition that the catalog has, in definition order
PresentStars(def) ==
    SelectSeq(def.stars,
              LAMBDA n : \E i \in DOMAIN catalog : catalog[i].name = n)

\* C15: get_constellation_frame positions exactly the stars of the
\* definition that the catalog has, in definition order and each once, skips
\* the others without an error, and returns the edges of the definition
C15_PositionsCatalogStarsInDefinitionOrder ==
    (phase = "responded" /\ op = "get_constellation_frame"
        /\ Defined(req.name) /\ req.when # BadTime)
    => /\ IsOk(resp)
       /\ LET present == PresentStars(DefinitionOf(req.name))
          IN  /\ Len(resp.val.stars) = Len(present)
              /\ \A k \in DOMAIN present : resp.val.stars[k].name = present[k]
       /\ resp.val.edges = DefinitionOf(req.name).edges

\* C15 witness: a frame of Ursa Minor from a catalog that lists Kochab before
\* Polaris and lacks the other four stars
C15_Witness ==
    /\ phase = "responded"
    /\ op = "get_constellation_frame"
    /\ req.name = "Ursa Minor"
    /\ IsOk(resp)
    /\ Len(catalog) = 2
    /\ catalog[1].name = "Kochab"
    /\ catalog[2].name = "Polaris"
    /\ Len(resp.val.stars) = 2

EdgesClosed(def) ==
    \A k \in DOMAIN def.edges :
        /\ def.edges[k][1] \in Range(def.stars)
        /\ def.edges[k][2] \in Range(def.stars)

\* C16: in every constellation definition, both endpoints of every edge are
\* stars of that constellation
C16_EdgeEndpointsAreMembers ==
    /\ \A name \in Range(ListConstellations) :
        IsOk(GetConstellationDefinition(name))
        /\ EdgesClosed(GetConstellationDefinition(name).val)
    /\ (phase = "responded" /\ op = "get_constellation_definition"
            /\ IsOk(resp))
        => EdgesClosed(resp.val)

\* C16 witness: the definition of Ursa Minor, with its 7 edges, returned
C16_Witness ==
    /\ phase = "responded"
    /\ op = "get_constellation_definition"
    /\ IsOk(resp)
    /\ resp.val.name = "Ursa Minor"
    /\ Len(resp.val.edges) = 7

-----------------------------------------------------------------------------
(* Properties of the field-of-view centre *)

-----------------------------------------------------------------------------
(* Properties of find_constellation_by_radec *)

\* constellation i of the table has a polygon holding (ra mod 360, dec cut
\* to [-90, 90])
HoldsPoint(i) ==
    \E k \in DOMAIN req.boundaries[i].polys :
        PolygonHolds(req.boundaries[i].polys[k], req.ra_deg % 360,
                     IF req.dec_deg > 90 THEN 90
                     ELSE IF req.dec_deg < -90 THEN -90 ELSE req.dec_deg)

\* C18: find_constellation_by_radec answers the first constellation of the
\* table, in its order, with a polygon holding (ra mod 360, clamped dec);
\* none exactly when no polygon holds it, an empty table included; and the
\* answer is the answer for (ra mod 360, clamped dec)
C18_FirstContainingConstellation ==
    (phase = "responded" /\ op = "find_constellation_by_radec")
    => /\ IsNone(resp) <=> ~\E i \in DOMAIN req.boundaries : HoldsPoint(i)
       /\ ~IsNone(resp) =>
            \E i \in DOMAIN req.boundaries :
                /\ HoldsPoint(i)
                /\ \A j \in 1..(i - 1) : ~HoldsPoint(j)
                /\ Val(resp) = req.boundaries[i].name
       /\ resp = FindConstellationByRadec(req.boundaries, req.ra_deg % 360,
                    IF req.dec_deg > 90 THEN 90
                    ELSE IF req.dec_deg < -90 THEN -90 ELSE req.dec_deg)

\* C18 witness: ra 725 and dec 5 lie in the regions of both Cet and Psc, and
\* the answer is Psc, the first of the two in the table
C18_Witness ==
    /\ phase = "responded"
    /\ op = "find_constellation_by_radec"
    /\ req.ra_deg = 725
    /\ req.dec_deg = 5
    /\ Len(req.boundaries) = 2
    /\ HoldsPoint(1)
    /\ HoldsPoint(2)
    /\ resp = Some("Psc")

-----------------------------------------------------------------------------
(* Properties of _parse_iso_datetime_utc *)

\* the string is an ISO-8601 date and time: nothing around it, "T" between
\* date and time, and after the time nothing, "Z" or a numeric offset
IsIso8601(s) ==
    /\ s.form = "text"
    /\ ~s.pad
    /\ s.date = "iso"
    /\ s.sep = "T"
    /\ s.suffix \in {"", "Z", "offset"}

\* C19: _parse_iso_datetime_utc returns the current instant for a missing or
\* empty input; reads a final Z as +00:00 and an instant without offset as
\* UTC; converts any other offset to UTC; and raises ValueError for every
\* string that is not ISO-8601
C19_ParsesIsoOrRaises ==
    (phase = "responded" /\ op = "_parse_iso_datetime_utc")
    => LET s == req.when_iso_utc
       IN  CASE s.form \in {"none", "empty"} -> resp = Ok(req.now)
             [] IsIso8601(s) ->
                    resp = Ok(IF s.suffix = "offset" THEN s.wall - s.offset
                              ELSE s.wall)
             [] OTHER -> resp = ValueError

-----------------------------------------------------------------------------
(* Properties of _equatorial_to_horizontal *)

InHorizontalRange(h) ==
    /\ -(Turn \div 4) <= h.altitude_deg
    /\ h.altitude_deg <= Turn \div 4
    /\ 0 <= h.azimuth_deg
    /\ h.azimuth_deg < Turn

\* C20: every position _equatorial_to_horizontal returns, and every position
\* get_visible_stars emits, has its altitude in [-90, 90] and its azimuth in
\* [0, 360), 360 itself excluded
C20_AltitudeAndAzimuthRanges ==
    /\ (phase = "responded" /\ op = "_equatorial_to_horizontal")
        => InHorizontalRange(resp)
    /\ (phase = "responded" /\ op = "get_visible_stars" /\ IsOk(resp))
        => \A k \in DOMAIN resp.val : InHorizontalRange(resp.val[k])

-----------------------------------------------------------------------------
(* Properties of the rise and set events of a planet *)

\* the events of planet i in the list returned, in the order of the list
EventsOfPlanet(i) ==
    SelectSeq(resp.val, LAMBDA e : e.body = EventPlanets[i])

\* the samples of planet data d that differ from the state before them, in
\* time order
StateChanges(d) ==
    SelectSeq([j \in DOMAIN d.samples |-> j], LAMBDA j : Transition(d, j))

\* no provider call made for planet data d raises
Unfailing(d) == PlanetFailurePoint(d) = Len(d.samples) + 1

\* C21: for a planet whose provider calls succeed, get_astronomy_events
\* emits one event per change of the above-horizon state, walking the samples
\* in time order from the state at t0: planet_rise where the state turns
\* true, planet_set where it turns false, nothing for a sample that repeats
\* the state
C21_OneEventPerStateChange ==
    EventsReturned
    => \A i \in DOMAIN EventPlanets :
        Unfailing(req.planets[i])
        => LET d == req.planets[i]
               changes == StateChanges(d)
               mine == EventsOfPlanet(i)
           IN  /\ Len(mine) = Len(changes)
               /\ \A k \in DOMAIN changes :
                    /\ mine[k].instant = d.samples[changes[k]].t
                    /\ mine[k].type = IF d.samples[changes[k]].st
                                      THEN "planet_rise" ELSE "planet_set"

\* C21 witness: Mercury is up at t0, its first sample repeats that state and
\* its second one reports it down; the one event of Mercury is a planet_set
C21_Witness ==
    /\ EventsReturned
    /\ Unfailing(req.planets[1])
    /\ req.planets[1].state0
    /\ Len(req.planets[1].samples) = 2
    /\ req.planets[1].samples[1].st
    /\ ~req.planets[1].samples[2].st
    /\ Len(EventsOfPlanet(1)) = 1
    /\ EventsOfPlanet(1)[1].type = "planet_set"

\* C28: in one result the rise and set events of a planet alternate, and the
\* first of them is a planet_rise exactly when the planet was below the
\* horizon at t0
C28_RiseAndSetAlternate ==
    EventsReturned
    => \A i \in DOMAIN EventPlanets :
        LET mine == EventsOfPlanet(i)
        IN  /\ \A k \in 1..(Len(mine) - 1) : mine[k].type # mine[k + 1].type
            /\ \A k \in 1..(Len(mine) - 1) : mine[k].instant < mine[k + 1].instant
            /\ mine # <<>>
                => (mine[1].type = "planet_rise" <=> ~req.planets[i].state0)

\* C28 witness: Mercury, down at t0, rises and sets within the same second;
\* both events are returned, the rise first
C28_Witness ==
    /\ EventsReturned
    /\ ~req.planets[1].state0
    /\ Len(EventsOfPlanet(1)) = 2
    /\ EventsOfPlanet(1)[1].type = "planet_rise"
    /\ EventsOfPlanet(1)[2].type = "planet_set"
    /\ EventsOfPlanet(1)[1].time = EventsOfPlanet(1)[2].time

-----------------------------------------------------------------------------
(* Properties of _az_to_cardinal8 *)

\* C22: _az_to_cardinal8 answers the label at index
\* floor((az mod 360 + 22.5) / 45) mod 8 of N, NE, E, SE, S, SW, W, NW: each
\* label covers the 45 degrees centred on its direction, the lower bound
\* included and the upper bound excluded
C22_CardinalSectors ==
    (phase = "responded" /\ op = "_az_to_cardinal8")
    => resp = Dirs[((((req.azimuth_deg % Turn) + Turn \div 16)
                        \div (Turn \div 8)) % 8) + 1]

-----------------------------------------------------------------------------
(* Properties of _point_in_polygon_2d *)

\* the index of the vertex before vertex v of the polygon of the request
PrevIndex(v) == IF v = 1 THEN Len(req.poly) ELSE v - 1

-----------------------------------------------------------------------------
(* Properties of the recentring of polygons *)

\* the value congruent to v mod 360 in [c - 180, c + 180)
Near(v, c) == CHOOSE w \in (c - 180)..(c + 179) : (w - v) % 360 = 0

\* the polygon of the request, spanning less than 180 degrees, laid out
\* around its own first vertex contains the point of the request laid out in
\* the same window
UnwrappedContains ==
    LET c == req.poly[1][1]
        flat == [i \in DOMAIN req.poly |-> <<Near(req.poly[i][1], c), req.poly[i][2]>>]
    IN  PointInPolygon2d(Near(req.ra, c), req.dec, flat)

\* C24: before the ray cast every vertex right ascension is replaced by the
\* value congruent to it mod 360 in [ra - 180, ra + 180), and a polygon that
\* spans less than 180 degrees holds the point exactly when the polygon laid
\* out without the break at 0/360 does
C24_RecentredPolygonContainsAsUnwrapped ==
    (phase = "responded" /\ op = "polygon_test")
    => /\ \A i \in DOMAIN req.poly :
            /\ (resp.ra_adj[i] - req.poly[i][1]) % 360 = 0
            /\ req.ra - 180 <= resp.ra_adj[i]
            /\ resp.ra_adj[i] < req.ra + 180
       /\ resp.inside <=> UnwrappedContains

-----------------------------------------------------------------------------
(* Properties of load_iau_boundaries and get_iau_constellation_centroids *)

RaInRange(ra) == 0 <= ra /\ ra < Turn
DecInRange(dec) == -(Turn \div 4) <= dec /\ dec <= Turn \div 4

\* C25: a load fails only where a value that should be a list of polygons or
\* a list of vertices cannot be iterated, never for a vertex that cannot be
\* parsed; in the loaded table every listed constellation has at least one
\* polygon, every polygon at least 3 vertices, every vertex has ra in
\* [0, 360) and dec in [-90, 90]; and every centroid derived from the table
\* has RA in [0, 360) and Dec in [-90, 90]
C25_BoundaryTableInRange ==
    /\ phase = "responded" /\ op = "load_iau_boundaries" =>
        IF IsOk(resp)
        THEN \A i \in DOMAIN resp.val :
                /\ resp.val[i].polys # <<>>
                /\ \A j \in DOMAIN resp.val[i].polys :
                    LET poly == resp.val[i].polys[j] IN
                    /\ Len(poly) >= 3
                    /\ \A k \in DOMAIN poly :
                        RaInRange(poly[k][1]) /\ DecInRange(poly[k][2])
        ELSE /\ req.raw # Absent
             /\ \E i \in DOMAIN req.raw.entries :
                    LoopRaises(req.raw.entries[i])
    /\ phase = "responded" /\ op = "get_iau_constellation_centroids"
            /\ IsOk(resp) =>
        \A i \in DOMAIN resp.val :
            RaInRange(resp.val[i].ra) /\ DecInRange(resp.val[i].dec)

-----------------------------------------------------------------------------
(* Properties of the batch iteration *)

BatchPaths == {"/visible-stars-batch", "/visible-bodies-batch"}

\* a batch request with valid start and end, start < end, has been handled
BatchWindowHandled ==
    /\ phase = "responded"
    /\ op \in BatchPaths
    /\ req.start.form = "iso"
    /\ req.end.form = "iso"
    /\ req.start.t < req.end.t

\* C26: for start < end and every step_hours > 0, however small, the
\* iteration over the instants of a batch comes to an end: the batch function
\* returns or raises
C26_BatchIterationTerminates ==
    (BatchWindowHandled /\ req.step_hours > 0)
    => resp.call.kind # "diverges"

\* no provider call of the batch in req is made to fail
BatchUnfailing == op = "/visible-stars-batch" \/ IsNone(req.fault)

\* C27: for start < end and step_hours > 0 the frames of a batch are those of
\* the instants start, start + step, ... up to the last one not later than
\* end, the first of them for start, and the at labels of consecutive frames
\* strictly increase; for step_hours <= 0 the batch function raises and
\* computes no frame
C27_BatchFramesAtSteps ==
    (BatchWindowHandled /\ BatchUnfailing)
    => IF req.step_hours > 0
       THEN /\ resp.call.kind = "ok"
            /\ LET frames == resp.call.val
                   step == StepToTimedelta(req.step_hours)
               IN  /\ frames # <<>>
                   /\ \A i \in DOMAIN frames :
                        /\ req.start.t + (i - 1) * step <= req.end.t
                        /\ frames[i].at =
                            FormatDatetimeIsoZ(req.start.t + (i - 1) * step)
                   /\ req.start.t + Len(frames) * step > req.end.t
                   /\ \A i \in 1..(Len(frames) - 1) :
                        frames[i].at < frames[i + 1].at
       ELSE resp.call = Raised("ValueError", 0)

-----------------------------------------------------------------------------
(* Properties of the cache of load_star_catalog *)

\* a call of load_star_catalog() is made and returns or raises
CatalogCall ==
    /\ phase = "idle"
    /\ phase' = "responded"
    /\ op' = "load_star_catalog"

\* C29: a call of load_star_catalog() made while the cache is empty runs the
\* loader on the file as it is then, failing if an entry of the file is
\* invalid and succeeding otherwise; a load that fails leaves the cache
\* empty, a load that succeeds caches its list; and a call made while the
\* cache holds a list returns that list without running the loader
C29_FailedLoadNotCached ==
    [][CatalogCall =>
        IF IsNone(cache["catalog"])
        THEN /\ ~req'.cached
             /\ loads'["catalog"] = 1
             /\ (IsOk(resp')
                    <=> \A i \in DOMAIN req'.raw : IsOk(CatalogEntry(req'.raw[i])))
             /\ cache'["catalog"] = IF IsOk(resp') THEN Some(resp'.val) ELSE None
        ELSE /\ req'.cached
             /\ resp' = Ok(Val(cache["catalog"]))
             /\ cache' = cache
             /\ loads' = loads]_vars

\* C29 witness: a load has failed and the cache is empty
C29_Witness ==
    /\ phase = "responded"
    /\ op = "load_star_catalog"
    /\ ~req.cached
    /\ ~IsOk(resp)
    /\ loads["catalog"] = 1
    /\ IsNone(cache["catalog"])

=============================================================================
